--------------------------- MODULE SeL4LinkProofs ---------------------------
(***************************************************************************)
(* Proofs about SeL4Link, for every set of clients and streams, every size *)
(* of frame buffers and rings, and every behaviour of guests, users, host  *)
(* and link.  First the target's side, the Mux; then the way down, from    *)
(* what users type to the rings; then the way up: the registry is first,   *)
(* and the whole refines StreamChannels.                                   *)
(***************************************************************************)
EXTENDS SeL4Link, HostDemuxProofs

\* The host's PTY threads handle bytes.
HDTypeOK ==
    /\ typed \in [PtyIdx -> Seq(Byte)]
    /\ buf \in [PtyIdx -> Seq(Byte)]
    /\ write_lock \subseteq PtyIdx
    /\ tty \in Seq(Byte)
    /\ greeting \in Seq(Byte)

\* No frame is empty: PutUplink always has a byte to put.
FramesHeld == FramesFit /\ \A k \in DOMAIN frames : frames[k] # <<>>

\* The interrupt thread publishes in a ring that was not full when it stored the
\* byte and that only the receiver has touched since.
StoresWhereRoom == \A s \in storing : storing = {s} /\ ~RingFull(ring[s])

LInv ==
    /\ IInv /\ HDTypeOK
    /\ CMTypeOK /\ FramesHeld /\ StoresWhereRoom /\ RingIsFifo

-----------------------------------------------------------------------------
(* A ring.                                                                 *)

Ring == [head: RingIdx, tail: RingIdx, buf: [RingIdx -> Byte]]

\* Indices less than two rounds from the start, without division
Wrapped(n)  == IF n < RingSize THEN n ELSE n - RingSize
Count(r)    == Wrapped(r.tail - r.head + RingSize)
Slot(r, k)  == Wrapped(r.head + k - 1)

\* An index that has gone round at most once
LEMMA WrapIsMod ==
    ASSUME NEW n \in Nat, n < 2 * RingSize
    PROVE  n % RingSize = Wrapped(n)
<1>1. RingSize \in Nat /\ RingSize > 1
  BY MuxAssumption
<1>2. CASE n < RingSize
  BY <1>1, <1>2 DEF Wrapped
<1>3. CASE n >= RingSize
  <2>1. n - RingSize \in Nat /\ n - RingSize < RingSize
    BY <1>1, <1>3
  <2>2. (n - RingSize) % RingSize = n - RingSize
    BY <1>1, <2>1
  <2>3. n % RingSize = (n - RingSize) % RingSize
    BY <1>1, <1>3
  <2> QED
    BY <1>1, <1>3, <2>2, <2>3 DEF Wrapped
<1> QED
  BY <1>1, <1>2, <1>3

\* A ring buffer's indices are in range.
LEMMA RingFacts ==
    ASSUME NEW r \in Ring
    PROVE  /\ RingSize \in Nat /\ RingSize > 1
           /\ r.head \in RingIdx /\ r.tail \in RingIdx /\ r.buf \in [RingIdx -> Byte]
           /\ Count(r) \in Nat /\ Count(r) < RingSize
           /\ \A k \in 1..Count(r) : Slot(r, k) \in RingIdx /\ Slot(r, k) # r.tail
           /\ NextTail(r) = Wrapped(r.tail + 1)
<1>1. RingSize \in Nat /\ RingSize > 1
  BY MuxAssumption
<1>2. r.head \in RingIdx /\ r.tail \in RingIdx /\ r.buf \in [RingIdx -> Byte]
  BY DEF Ring
<1>3. r.tail + 1 \in Nat /\ r.tail + 1 < 2 * RingSize
  BY <1>1, <1>2 DEF RingIdx
<1>4. NextTail(r) = Wrapped(r.tail + 1)
  BY <1>3, WrapIsMod DEF NextTail
<1>5. Count(r) \in Nat /\ Count(r) < RingSize
  BY <1>1, <1>2 DEF RingIdx, Count, Wrapped
<1>6. \A k \in 1..Count(r) : Slot(r, k) \in RingIdx /\ Slot(r, k) # r.tail
  BY <1>1, <1>2 DEF RingIdx, Count, Slot, Wrapped
<1> QED
  BY <1>1, <1>2, <1>4, <1>5, <1>6

\* What is in a ring, without division
LEMMA ContentsIs ==
    ASSUME NEW r \in Ring
    PROVE  /\ Contents(r) = [k \in 1..Count(r) |-> r.buf[Slot(r, k)]]
           /\ Contents(r) \in Seq(Byte) /\ Len(Contents(r)) = Count(r)
<1> DEFINE n == (r.tail - r.head + RingSize) % RingSize
<1>1. n = Count(r)
  <2>1. r.tail - r.head + RingSize \in Nat /\ r.tail - r.head + RingSize < 2 * RingSize
    BY RingFacts DEF RingIdx
  <2> QED
    BY <2>1, WrapIsMod DEF Count
<1>2. \A k \in 1..Count(r) : (r.head + k - 1) % RingSize = Slot(r, k)
  <2> TAKE k \in 1..Count(r)
  <2>1. r.head + k - 1 \in Nat /\ r.head + k - 1 < 2 * RingSize
    BY RingFacts DEF RingIdx
  <2> QED
    BY <2>1, WrapIsMod DEF Slot
<1>3. Contents(r) = [k \in 1..Count(r) |-> r.buf[Slot(r, k)]]
  BY <1>1, <1>2 DEF Contents
<1>4. \A k \in 1..Count(r) : r.buf[Slot(r, k)] \in Byte
  BY RingFacts
<1>5. Count(r) \in Nat
  BY RingFacts
<1>6. Contents(r) \in Seq(Byte) /\ Len(Contents(r)) = Count(r)
  <2> HIDE DEF n
  <2> QED
    BY <1>3, <1>4, <1>5
<1> QED
  BY <1>3, <1>6

\* enqueue_stream_byte writes where no unread byte is.
LEMMA StoreKeepsContents ==
    ASSUME NEW r \in Ring, NEW byte \in Byte
    PROVE  LET q == [r EXCEPT !.buf[r.tail] = byte]
           IN  q \in Ring /\ Contents(q) = Contents(r) /\ (RingFull(q) <=> RingFull(r))
<1> DEFINE q == [r EXCEPT !.buf[r.tail] = byte]
<1>1. q \in Ring /\ q.head = r.head /\ q.tail = r.tail /\ q.buf = [r.buf EXCEPT ![r.tail] = byte]
  BY RingFacts DEF Ring
<1> HIDE DEF q
<1>2. Count(q) = Count(r) /\ \A k : Slot(q, k) = Slot(r, k)
  BY <1>1 DEF Count, Slot
<1>3. \A k \in 1..Count(r) : q.buf[Slot(r, k)] = r.buf[Slot(r, k)]
  BY <1>1, RingFacts
<1>4. Contents(q) = Contents(r)
  <2>1. [k \in 1..Count(r) |-> q.buf[Slot(r, k)]] = [k \in 1..Count(r) |-> r.buf[Slot(r, k)]]
    BY <1>3
  <2>2. Contents(q) = [k \in 1..Count(r) |-> q.buf[Slot(r, k)]]
    <3>1. Contents(q) = [k \in 1..Count(q) |-> q.buf[Slot(q, k)]]
      BY <1>1, ContentsIs
    <3>2. [k \in 1..Count(q) |-> q.buf[Slot(q, k)]] = [k \in 1..Count(r) |-> q.buf[Slot(r, k)]]
      BY <1>2, Zenon
    <3> QED
      BY <3>1, <3>2, Zenon
  <2> QED
    BY <2>1, <2>2, ContentsIs
<1>5. RingFull(q) <=> RingFull(r)
  BY <1>1 DEF RingFull, NextTail
<1> QED
  BY <1>1, <1>4, <1>5 DEF q

\* Moving the tail of a ring that is not full makes the byte at it the last one.
LEMMA PublishAppends ==
    ASSUME NEW r \in Ring, ~RingFull(r)
    PROVE  LET q == [r EXCEPT !.tail = NextTail(r)]
           IN  q \in Ring /\ Contents(q) = Append(Contents(r), r.buf[r.tail])
<1> DEFINE q == [r EXCEPT !.tail = NextTail(r)]
           n == Count(r)
<1>1. NextTail(r) \in RingIdx /\ NextTail(r) # r.head
  BY RingFacts DEF RingFull, RingIdx, Wrapped
<1>2. q \in Ring /\ q.head = r.head /\ q.tail = NextTail(r) /\ q.buf = r.buf
  BY <1>1 DEF Ring
<1> HIDE DEF q
<1>3. Count(q) = n + 1
  <2>1. /\ r.head \in 0..(RingSize - 1) /\ r.tail \in 0..(RingSize - 1)
        /\ RingSize \in Nat /\ RingSize > 1
    BY RingFacts DEF RingIdx
  <2>2. q.tail = IF r.tail + 1 < RingSize THEN r.tail + 1 ELSE (r.tail + 1) - RingSize
    BY <1>2, RingFacts, Zenon DEF Wrapped
  <2> QED
    BY <1>1, <1>2, <2>1, <2>2 DEF Count, Wrapped
<1>4. Slot(r, n + 1) = r.tail
  BY RingFacts DEF Count, Slot, Wrapped, RingIdx
<1>5. \A k : Slot(q, k) = Slot(r, k)
  BY <1>2 DEF Slot
<1>6. n \in Nat /\ r.buf[r.tail] \in Byte
  BY RingFacts
<1>7. /\ Contents(r) \in Seq(Byte) /\ Len(Contents(r)) = n
      /\ \A k \in 1..n : Contents(r)[k] = r.buf[Slot(r, k)]
  BY ContentsIs
<1>8. /\ Contents(q) \in Seq(Byte) /\ Len(Contents(q)) = n + 1
      /\ \A k \in 1..(n + 1) : Contents(q)[k] = r.buf[Slot(r, k)]
  BY <1>2, <1>3, <1>5, ContentsIs
<1> HIDE DEF n
<1> DEFINE c == Append(Contents(r), r.buf[r.tail])
<1>9. c \in Seq(Byte) /\ Len(c) = n + 1 /\ \A k \in 1..(n + 1) : c[k] = Contents(q)[k]
  BY <1>4, <1>6, <1>7, <1>8
<1>10. Contents(q) = c
  BY <1>8, <1>9, SeqEqual
<1> QED
  BY <1>2, <1>10 DEF q

\* Moving the head of a ring that is not empty removes the oldest byte.
LEMMA TakeRemovesFirst ==
    ASSUME NEW r \in Ring, r.head # r.tail
    PROVE  LET q == [r EXCEPT !.head = (@ + 1) % RingSize]
           IN  /\ q \in Ring /\ Contents(r) = <<r.buf[r.head]>> \o Contents(q)
               /\ r.buf[r.head] \in Byte
               /\ ~RingFull(r) => ~RingFull(q)
<1> DEFINE q == [r EXCEPT !.head = (@ + 1) % RingSize]
           n == Count(q)
<1>1. (r.head + 1) % RingSize = Wrapped(r.head + 1)
  <2>1. r.head + 1 \in Nat /\ r.head + 1 < 2 * RingSize
    BY RingFacts DEF RingIdx
  <2> QED
    BY <2>1, WrapIsMod
<1>2. Wrapped(r.head + 1) \in RingIdx
  BY RingFacts DEF RingIdx, Wrapped
<1>3. q \in Ring /\ q.head = Wrapped(r.head + 1) /\ q.tail = r.tail /\ q.buf = r.buf
  BY <1>1, <1>2 DEF Ring
<1> HIDE DEF q
<1>4. Count(r) = n + 1
  BY <1>3, RingFacts, SMTT(30) DEF Count, Wrapped, RingIdx
<1>5. Slot(r, 1) = r.head /\ r.buf[r.head] \in Byte
  BY RingFacts DEF Slot, Wrapped, RingIdx
<1>6. n \in Nat /\ \A k \in 1..n : Slot(q, k) = Slot(r, k + 1)
  <2>1. n \in Nat /\ n < RingSize
    BY <1>3, RingFacts
  <2> HIDE DEF n
  <2> QED
    BY <1>3, <2>1, RingFacts, SMTT(40) DEF Slot, Wrapped, RingIdx
<1>7. /\ Contents(r) \in Seq(Byte) /\ Len(Contents(r)) = n + 1
      /\ \A k \in 1..(n + 1) : Contents(r)[k] = r.buf[Slot(r, k)]
  BY <1>4, ContentsIs
<1>8. /\ Contents(q) \in Seq(Byte) /\ Len(Contents(q)) = n
      /\ \A k \in 1..n : Contents(q)[k] = r.buf[Slot(r, k + 1)]
  BY <1>3, <1>6, ContentsIs
<1> HIDE DEF n
<1> DEFINE c == <<r.buf[r.head]>> \o Contents(q)
<1>9. c \in Seq(Byte) /\ Len(c) = n + 1 /\ \A k \in 1..(n + 1) : c[k] = Contents(r)[k]
  BY <1>5, <1>6, <1>7, <1>8
<1>10. Contents(r) = c
  BY <1>7, <1>9, SeqEqual
<1>11. ~RingFull(r) => ~RingFull(q)
  BY <1>3, RingFacts, SMTT(30) DEF RingFull, Wrapped, RingIdx
<1> QED
  BY <1>3, <1>5, <1>10, <1>11 DEF q

-----------------------------------------------------------------------------
(* Frames.                                                                 *)

\* The frames emit_framed_payload has begun: each leaves room for the end.
Begun == {fs \in Seq(Seq(Byte)) :
             fs # <<>> /\ \A k \in 1..Len(fs) : Len(fs[k]) >= 2 /\ Len(fs[k]) + 3 <= FrameSize}

\* The frames it puts on the UART
Framed == {fs \in Seq(Seq(Byte)) :
             \A k \in 1..Len(fs) : fs[k] # <<>> /\ Len(fs[k]) <= FrameSize}

\* The protocol's values are bytes, and different.
LEMMA MuxBytes ==
    /\ ByteMax \in Nat /\ ByteMax >= 7
    /\ {DEFAULT, CONTROL, ESC, OUTER_ESC, OUTER_RESET} \subseteq Byte
    /\ {STREAM_REGISTRY, DOWNLINK_ACK} \subseteq Byte
    /\ ValidStreamId \subseteq Byte /\ DemuxSinks \subseteq Byte \ {0}
BY ByteMaxAssumption, ControlTypesAssumption, MuxAssumption
   DEF Byte, DEFAULT, CONTROL, ESC, OUTER_ESC, OUTER_RESET, STREAM_REGISTRY, DOWNLINK_ACK, ValidStreamId

\* Escaped data are bytes.
LEMMA EscapeType ==
    ASSUME NEW s \in Seq(Byte)
    PROVE  EscapePayload(s) \in Seq(Byte)
<1> DEFINE f == [i \in DOMAIN s |-> IF s[i] = ESC THEN <<ESC, ESC>> ELSE <<s[i]>>]
<1>1. ESC \in Byte
  BY MuxBytes
<1>2. \A i \in 1..Len(s) : (IF s[i] = ESC THEN <<ESC, ESC>> ELSE <<s[i]>>) \in Seq(Byte)
  BY <1>1
<1>3. DOMAIN s = 1..Len(s) /\ Len(s) \in Nat
  OBVIOUS
<1>4. f \in Seq(Seq(Byte))
  BY <1>2, <1>3
<1> QED
  BY <1>4, FlattenType DEF EscapePayload

\* A byte that is escaped takes one or two.
LEMMA EscapeOne ==
    ASSUME NEW byte \in Byte
    PROVE  EscapePayload(<<byte>>) \in Seq(Byte) /\ Len(EscapePayload(<<byte>>)) \in 1..2
<1> DEFINE e == IF byte = ESC THEN <<ESC, ESC>> ELSE <<byte>>
           f == [i \in DOMAIN <<byte>> |-> IF <<byte>>[i] = ESC THEN <<ESC, ESC>> ELSE <<(<<byte>>[i])>>]
<1>1. e \in Seq(Byte) /\ Len(e) \in 1..2
  BY MuxBytes
<1>2. f = <<e>>
  OBVIOUS
<1>3. EscapePayload(<<byte>>) = FlattenSeq(f)
  BY DEF EscapePayload
<1> HIDE DEF e, f
<1>4. FlattenSeq(<<e>>) = e
  BY <1>1, FlattenSingle
<1> QED
  BY <1>1, <1>2, <1>3, <1>4

\* The test before each byte leaves room for a doubled byte and the end.
LEMMA AddByteFits ==
    ASSUME NEW id \in Byte, NEW acc \in Begun, NEW byte \in Byte
    PROVE  AddByte(id, acc, byte) \in Begun
<1> DEFINE fs == IF FrameFull(Len(Last(acc))) THEN Append(acc, <<ESC, id>>) ELSE acc
           n  == Len(fs)
           e  == EscapePayload(<<byte>>)
           g  == [fs EXCEPT ![n] = @ \o e]
<1>0. FrameSize \in Nat /\ FrameSize > 6
  BY MuxAssumption
<1>1. acc \in Seq(Seq(Byte)) /\ Len(acc) \in Nat /\ Len(acc) >= 1
  BY DEF Begun
<1>2. <<ESC, id>> \in Seq(Byte) /\ Len(<<ESC, id>>) = 2
  BY MuxBytes
<1>3. /\ fs \in Seq(Seq(Byte)) /\ n \in Nat /\ n >= 1
      /\ \A k \in 1..n : Len(fs[k]) >= 2 /\ Len(fs[k]) + 3 <= FrameSize
      /\ Len(fs[n]) + 5 <= FrameSize
  <2>1. CASE FrameFull(Len(Last(acc)))
    <3>1. fs = Append(acc, <<ESC, id>>)
      BY <2>1
    <3>2. n = Len(acc) + 1 /\ fs[n] = <<ESC, id>> /\ \A k \in 1..Len(acc) : fs[k] = acc[k]
      BY <1>1, <3>1
    <3>3. fs \in Seq(Seq(Byte))
      BY <1>1, <1>2, <3>1
    <3>a. \A k \in 1..Len(acc) : Len(acc[k]) >= 2 /\ Len(acc[k]) + 3 <= FrameSize
      BY DEF Begun
    <3>b. \A k \in 1..n : k \in 1..Len(acc) \/ k = n
      BY <1>1, <3>2
    <3> HIDE DEF fs, n
    <3>4. \A k \in 1..n : Len(fs[k]) >= 2 /\ Len(fs[k]) + 3 <= FrameSize
      <4>1. Len(fs[n]) >= 2 /\ Len(fs[n]) + 3 <= FrameSize
        BY <1>0, <1>2, <3>2
      <4> QED
        BY <3>2, <3>a, <3>b, <4>1, Zenon
    <3> QED
      BY <1>0, <1>1, <1>2, <3>2, <3>3, <3>4
  <2>2. CASE ~FrameFull(Len(Last(acc)))
    <3>1. fs = acc
      BY <2>2
    <3>2. Len(acc[Len(acc)]) + 5 <= FrameSize
      <4>1. acc[Len(acc)] \in Seq(Byte)
        BY <1>1
      <4>2. Len(acc[Len(acc)]) \in Nat
        BY <4>1
      <4> QED
        BY <1>0, <2>2, <4>2 DEF FrameFull, Last
    <3> QED
      BY <1>1, <3>1, <3>2 DEF Begun
  <2> QED
    BY <2>1, <2>2
<1>4. AddByte(id, acc, byte) = g
  BY DEF AddByte
<1>5. e \in Seq(Byte) /\ Len(e) \in 1..2
  BY EscapeOne
<1>6. n = Len(fs) /\ n \in 1..n
  BY <1>3
<1> HIDE DEF fs, e, n
<1>7. fs[n] \in Seq(Byte)
  BY <1>3, <1>6, ElementOfSeq
<1>8. fs[n] \o e \in Seq(Byte) /\ Len(fs[n] \o e) = Len(fs[n]) + Len(e) /\ Len(fs[n]) \in Nat
  BY <1>5, <1>7
<1>9. g \in Seq(Seq(Byte)) /\ Len(g) = n /\ \A k \in 1..n : g[k] = IF k = n THEN fs[n] \o e ELSE fs[k]
  BY <1>3, <1>6, <1>8, ExceptSeq
<1> HIDE DEF g
<1>10. Len(fs[n] \o e) >= 2 /\ Len(fs[n] \o e) + 3 <= FrameSize
  <2>1. Len(fs[n]) >= 2 /\ Len(fs[n]) + 5 <= FrameSize
    BY <1>3, <1>6
  <2>2. \A a, b, c : a \in Nat /\ b \in 1..2 /\ c = a + b /\ a >= 2 /\ a + 5 <= FrameSize
                        => c >= 2 /\ c + 3 <= FrameSize
    BY <1>0
  <2> QED
    BY <1>5, <1>8, <2>1, <2>2, Zenon
<1>11. \A k \in 1..n : Len(g[k]) >= 2 /\ Len(g[k]) + 3 <= FrameSize
  BY <1>3, <1>9, <1>10
<1>12. g # <<>>
  BY <1>3, <1>9
<1> QED
  BY <1>4, <1>9, <1>11, <1>12 DEF Begun

\* There is room for the end of a frame that is in its buffer.
LEMMA AddEndFits ==
    ASSUME NEW fs \in Begun
    PROVE  AddEnd(fs) \in Framed
<1> DEFINE n == Len(fs)
           e == <<ESC, DEFAULT>>
           g == [fs EXCEPT ![n] = @ \o e]
<1>0. FrameSize \in Nat /\ FrameSize > 6
  BY MuxAssumption
<1>1. /\ fs \in Seq(Seq(Byte)) /\ n \in Nat /\ n >= 1
      /\ \A k \in 1..n : Len(fs[k]) >= 2 /\ Len(fs[k]) + 3 <= FrameSize
  BY DEF Begun
<1>2. e \in Seq(Byte) /\ Len(e) = 2
  BY MuxBytes
<1>3. AddEnd(fs) = Append(fs, e) \/ AddEnd(fs) = g
  BY DEF AddEnd
<1>4. \A k \in 1..n : fs[k] # <<>> /\ Len(fs[k]) + 2 <= FrameSize /\ fs[k] \in Seq(Byte)
  BY <1>0, <1>1
<1> HIDE DEF e
<1>5. Append(fs, e) \in Framed
  <2>1. /\ Append(fs, e) \in Seq(Seq(Byte)) /\ Len(Append(fs, e)) = n + 1
        /\ Append(fs, e)[n + 1] = e /\ \A k \in 1..n : Append(fs, e)[k] = fs[k]
    BY <1>1, <1>2
  <2>2. e # <<>> /\ Len(e) <= FrameSize
    BY <1>0, <1>2, SMTT(30)
  <2>3. \A k \in 1..n : fs[k] # <<>> /\ Len(fs[k]) <= FrameSize
    BY <1>0, <1>4
  <2>4. \A k \in 1..(n + 1) : k \in 1..n \/ k = n + 1
    BY <1>1
  <2> HIDE DEF n
  <2> QED
    BY <2>1, <2>2, <2>3, <2>4 DEF Framed
<1>6. g \in Framed
  <2>1. n = Len(fs) /\ n \in 1..n /\ fs[n] \in Seq(Byte)
    BY <1>1, <1>4
  <2>2. fs[n] \o e \in Seq(Byte) /\ Len(fs[n] \o e) = Len(fs[n]) + 2 /\ Len(fs[n]) \in Nat
    <3> DEFINE last == fs[n]
    <3>1. last \in Seq(Byte)
      BY <2>1
    <3> HIDE DEF last
    <3>2. last \o e \in Seq(Byte) /\ Len(last \o e) = Len(last) + Len(e)
      BY <1>2, <3>1, ConcatProperties, Zenon
    <3>3. Len(last) \in Nat
      BY <3>1, LenProperties, Zenon
    <3> QED
      BY <1>2, <3>2, <3>3, Zenon DEF last
  <2>3. g \in Seq(Seq(Byte)) /\ Len(g) = n /\ \A k \in 1..n : g[k] = IF k = n THEN fs[n] \o e ELSE fs[k]
    BY <1>1, <2>1, <2>2, ExceptSeq
  <2>5. fs[n] \o e # <<>> /\ Len(fs[n] \o e) <= FrameSize
    BY <1>0, <1>1, <1>4, <2>2
  <2>6. \A k \in 1..n : fs[k] # <<>> /\ Len(fs[k]) <= FrameSize
    BY <1>0, <1>4
  <2> HIDE DEF g, n
  <2>7. \A k \in 1..n : g[k] # <<>> /\ Len(g[k]) <= FrameSize
    BY <2>3, <2>5, <2>6
  <2> QED
    BY <2>3, <2>7 DEF Framed
<1> QED
  BY <1>3, <1>5, <1>6

\* it is the fold over the first n bytes of the payload, as FoldLeft defines it:
\* on sets of positions, of which it takes the largest first.
Collects(it, id, bytes, n) ==
    it = [s \in SUBSET (1..n) |->
             IF s = {} THEN << <<ESC, id>> >>
             ELSE AddByte(id, it[s \ {Max(s)}], bytes[Max(s)])]

\* The recursive equation of a fold, one index at a time
LEMMA CollectsAt ==
    ASSUME NEW it, NEW id, NEW bytes, NEW n, Collects(it, id, bytes, n), NEW s \in SUBSET (1..n)
    PROVE  it[s] = IF s = {} THEN << <<ESC, id>> >>
                   ELSE AddByte(id, it[s \ {Max(s)}], bytes[Max(s)])
<1> DEFINE r == [u \in SUBSET (1..n) |->
                   IF u = {} THEN << <<ESC, id>> >>
                   ELSE AddByte(id, it[u \ {Max(u)}], bytes[Max(u)])]
<1>1. r[s] = IF s = {} THEN << <<ESC, id>> >>
             ELSE AddByte(id, it[s \ {Max(s)}], bytes[Max(s)])
  OBVIOUS
<1>2. it = r
  BY Zenon DEF Collects
<1> QED
  BY <1>1, <1>2, Zenon

\* The recursive function of the fold exists for every length.
LEMMA CollectsExists ==
    ASSUME NEW id, NEW bytes
    PROVE  \A n \in Nat : \E it : Collects(it, id, bytes, n)
<1> DEFINE T == {n \in Nat : \E it : Collects(it, id, bytes, n)}
           base == << <<ESC, id>> >>
<1>1. 0 \in T
  <2> DEFINE it == [s \in SUBSET (1..0) |-> base]
  <2>1. \A s \in SUBSET (1..0) : s = {}
    OBVIOUS
  <2> HIDE DEF base
  <2>2. it = [s \in SUBSET (1..0) |->
                 IF s = {} THEN base ELSE AddByte(id, it[s \ {Max(s)}], bytes[Max(s)])]
    BY <2>1, Zenon
  <2>3. Collects(it, id, bytes, 0)
    BY <2>2, Zenon DEF Collects, base
  <2> QED
    BY <2>3
<1>2. ASSUME NEW n \in Nat, n \in T PROVE n + 1 \in T
  <2>1. PICK g : Collects(g, id, bytes, n)
    BY <1>2
  <2> DEFINE h == [s \in SUBSET (1..(n + 1)) |->
                     IF n + 1 \in s THEN AddByte(id, g[s \ {n + 1}], bytes[n + 1]) ELSE g[s]]
             R(f, s) == IF s = {} THEN base ELSE AddByte(id, f[s \ {Max(s)}], bytes[Max(s)])
  <2>2. \A s \in SUBSET (1..n) : s \in SUBSET (1..(n + 1)) /\ h[s] = g[s]
    <3> TAKE s \in SUBSET (1..n)
    <3>1. s \in SUBSET (1..(n + 1)) /\ n + 1 \notin s
      OBVIOUS
    <3> QED
      BY <3>1
  <2>3. ASSUME NEW s \in SUBSET (1..(n + 1)) PROVE h[s] = R(h, s)
    <3>1. CASE n + 1 \in s
      <4>1. Max(s) = n + 1 /\ s \ {Max(s)} \in SUBSET (1..n) /\ s # {}
        BY <3>1, MaxOfInitial
      <4>2. h[s] = AddByte(id, g[s \ {n + 1}], bytes[n + 1])
        BY <3>1
      <4>3. h[s \ {Max(s)}] = g[s \ {Max(s)}]
        BY <2>2, <4>1, Zenon
      <4> HIDE DEF h, base
      <4> QED
        BY <4>1, <4>2, <4>3
    <3>2. CASE n + 1 \notin s
      <4>1. s \in SUBSET (1..n) /\ s \ {Max(s)} \in SUBSET (1..n)
        <5>1. \A k \in 1..(n + 1) : k \in 1..n \/ k = n + 1
          OBVIOUS
        <5> QED
          BY <3>2, <5>1
      <4>2. h[s] = g[s] /\ h[s \ {Max(s)}] = g[s \ {Max(s)}]
        BY <2>2, <4>1, Zenon
      <4>3. g[s] = R(g, s)
        <5>1. g[s] = IF s = {} THEN << <<ESC, id>> >>
                     ELSE AddByte(id, g[s \ {Max(s)}], bytes[Max(s)])
          BY <2>1, <4>1, CollectsAt
        <5> QED
          BY <5>1
      <4> HIDE DEF h, base
      <4> QED
        BY <4>2, <4>3
    <3> QED
      BY <3>1, <3>2
  <2>4. h = [s \in SUBSET (1..(n + 1)) |-> h[s]]
    OBVIOUS
  <2> HIDE DEF h
  <2>5. h = [s \in SUBSET (1..(n + 1)) |-> R(h, s)]
    BY <2>3, <2>4
  <2>6. Collects(h, id, bytes, n + 1)
    BY <2>5, Zenon DEF Collects
  <2> QED
    BY <2>6
<1>3. Nat \subseteq T
  <2> HIDE DEF T
  <2> QED
    BY <1>1, <1>2, NatSetInduction
<1> QED
  BY <1>3

\* The first and the next step of a fold
LEMMA CollectsNext ==
    ASSUME NEW it, NEW id, NEW bytes, NEW m \in Nat, Collects(it, id, bytes, m)
    PROVE  /\ it[1..0] = << <<ESC, id>> >>
           /\ \A n \in Nat : n + 1 <= m => it[1..(n + 1)] = AddByte(id, it[1..n], bytes[n + 1])
<1>1. it[1..0] = << <<ESC, id>> >>
  <2>1. 1..0 = {} /\ {} \in SUBSET (1..m)
    OBVIOUS
  <2> QED
    BY <2>1, CollectsAt
<1>2. ASSUME NEW n \in Nat, n + 1 <= m PROVE it[1..(n + 1)] = AddByte(id, it[1..n], bytes[n + 1])
  <2> DEFINE s == 1..(n + 1)
  <2>1. s \in SUBSET (1..m) /\ s # {} /\ n + 1 \in s /\ s \in SUBSET (1..(n + 1)) /\ s \ {n + 1} = 1..n
    <3>1. n + 1 \in s /\ \A k \in s : k \in 1..m
      BY <1>2
    <3>2. \A k : k \in s \ {n + 1} <=> k \in 1..n
      OBVIOUS
    <3> HIDE DEF s
    <3>3. s \ {n + 1} = 1..n
      BY <3>2, Zenon
    <3> QED
      BY <3>1, <3>3 DEF s
  <2>2. Max(s) = n + 1
    BY <2>1, MaxOfInitial
  <2> HIDE DEF s
  <2>3. it[s] = IF s = {} THEN << <<ESC, id>> >>
                ELSE AddByte(id, it[s \ {Max(s)}], bytes[Max(s)])
    <3>1. s \in SUBSET (1..m)
      BY <2>1
    <3> DEFINE dom == SUBSET (1..m)
               r == [u \in dom |-> IF u = {} THEN << <<ESC, id>> >>
                                  ELSE AddByte(id, it[u \ {Max(u)}], bytes[Max(u)])]
    <3>2. it = r
      BY Zenon DEF Collects
    <3>3. s \in dom
      BY <3>1
    <3> HIDE DEF dom
    <3>4. r[s] = IF s = {} THEN << <<ESC, id>> >>
                 ELSE AddByte(id, it[s \ {Max(s)}], bytes[Max(s)])
      BY <3>3
    <3> QED
      BY <3>2, <3>4, Zenon
  <2>4. it[s] = AddByte(id, it[1..n], bytes[n + 1])
    BY <2>1, <2>2, <2>3
  <2> QED
    BY <2>4 DEF s
<1> QED
  BY <1>1, <1>2

\* Whatever the payload, the frames built from it leave room for the end.
LEMMA CollectFits ==
    ASSUME NEW id \in Byte, NEW bytes \in Seq(Byte)
    PROVE  FoldLeft(LAMBDA acc, byte : AddByte(id, acc, byte), << <<ESC, id>> >>, bytes) \in Begun
<1> DEFINE m == Len(bytes)
           it == CHOOSE g : Collects(g, id, bytes, m)
<1>1. m \in Nat /\ DOMAIN bytes = 1..m
  OBVIOUS
<1>2. Collects(it, id, bytes, m)
  BY <1>1, CollectsExists
<1>3. FoldLeft(LAMBDA acc, byte : AddByte(id, acc, byte), << <<ESC, id>> >>, bytes) = it[1..m]
  BY <1>1 DEF FoldLeft, MapThenFoldSet, Collects
<1> HIDE DEF it
<1> DEFINE T == {n \in Nat : n <= m => it[1..n] \in Begun}
<1>4. 0 \in T
  <2>2. it[1..0] = << <<ESC, id>> >>
    BY <1>1, <1>2, CollectsNext
  <2> DEFINE b == <<ESC, id>>
  <2>3. b \in Seq(Byte) /\ Len(b) = 2
    BY MuxBytes
  <2> HIDE DEF b
  <2>4. <<b>> \in Begun
    <3>1. <<b>> \in Seq(Seq(Byte)) /\ <<b>> # <<>> /\ Len(<<b>>) = 1 /\ <<b>>[1] = b
      BY <2>3
    <3>2. Len(b) >= 2 /\ Len(b) + 3 <= FrameSize
      BY <2>3, MuxAssumption
    <3> QED
      BY <3>1, <3>2 DEF Begun
  <2> QED
    BY <2>2, <2>4 DEF b
<1>5. ASSUME NEW n \in Nat, n \in T PROVE n + 1 \in T
  <2> SUFFICES ASSUME n + 1 <= m PROVE it[1..(n + 1)] \in Begun
    OBVIOUS
  <2>1. it[1..n] \in Begun /\ bytes[n + 1] \in Byte
    <3>1. n + 1 \in 1..Len(bytes) /\ n <= m
      BY <1>1
    <3> QED
      BY <1>5, <3>1, ElementOfSeq
  <2>2. it[1..(n + 1)] = AddByte(id, it[1..n], bytes[n + 1])
    BY <1>1, <1>2, CollectsNext
  <2> QED
    BY <2>1, <2>2, AddByteFits
<1>6. Nat \subseteq T
  <2> HIDE DEF T
  <2> QED
    BY <1>4, <1>5, NatSetInduction
<1>7. it[1..m] \in Begun
  <2>1. m \in T /\ m <= m
    BY <1>1, <1>6
  <2> QED
    BY <2>1
<1> QED
  BY <1>3, <1>7, Zenon

\* Frames of a payload fit the buffer.
LEMMA PayloadFits ==
    ASSUME NEW id \in Byte, NEW bytes \in Seq(Byte)
    PROVE  PayloadFrames(id, bytes) \in Framed
BY CollectFits, AddEndFits DEF PayloadFrames

\* So do the frames of the registry.
LEMMA RegistryFitsFrame == RegistryFrames \in Framed
<1>1. CASE ~(~registry_emitted /\ RegistryFits)
  <2>1. <<>> \in Framed
    BY DEF Framed
  <2> QED
    BY <1>1, <2>1 DEF RegistryFrames
<1>2. CASE ~registry_emitted /\ RegistryFits
  <2> DEFINE n == Len(RegistryJson)
             a == <<ESC, CONTROL, STREAM_REGISTRY>>
             b == LenBytes(n)
             e == EncodeRegistry(RegistryJson)
  <2>1. RegistryJson \in Seq(Byte) /\ n \in Nat
    BY MuxAssumption
  <2>2. a \in Seq(Byte) /\ Len(a) = 3
    BY MuxBytes
  <2>3. b \in Seq(Byte) /\ Len(b) = 2
    <3>1. n < (ByteMax + 1) * (ByteMax + 1) /\ ByteMax + 1 \in Nat \ {0}
      BY <1>2, MuxBytes DEF RegistryFits
    <3>2. n \div (ByteMax + 1) \in 0..((ByteMax + 1) - 1)
      BY <2>1, <3>1, HighDigit
    <3>3. n % (ByteMax + 1) \in 0..ByteMax
      BY <2>1, MuxBytes
    <3>4. n \div (ByteMax + 1) \in Byte /\ n % (ByteMax + 1) \in Byte
      BY <3>2, <3>3, MuxBytes DEF Byte
    <3> QED
      BY <3>4 DEF LenBytes
  <2>4. e = (a \o b) \o RegistryJson
    BY DEF EncodeRegistry
  <2> HIDE DEF a, b
  <2>5. e \in Seq(Byte) /\ Len(e) = 5 + n
    <3>0. a \o b \in Seq(Byte) /\ Len(a \o b) = Len(a) + Len(b)
      BY <2>2, <2>3, ConcatProperties, Zenon
    <3>1. a \o b \in Seq(Byte) /\ Len(a \o b) = 5
      BY <2>2, <2>3, <3>0
    <3> DEFINE d == a \o b
    <3> HIDE DEF d
    <3>2. d \o RegistryJson \in Seq(Byte) /\ Len(d \o RegistryJson) = 5 + n
      BY <2>1, <3>1 DEF d
    <3> QED
      BY <2>4, <3>2 DEF d
  <2> HIDE DEF e
  <2>6. e # <<>> /\ Len(e) <= FrameSize
    BY <1>2, <2>1, <2>5, MuxAssumption DEF RegistryFits
  <2>7. <<e>> \in Framed
    BY <2>5, <2>6 DEF Framed
  <2> QED
    BY <1>2, <2>7 DEF RegistryFrames, e
<1> QED
  BY <1>1, <1>2

\* A frame alone
LEMMA FramedOne ==
    ASSUME NEW f \in Seq(Byte), f # <<>>, Len(f) <= FrameSize
    PROVE  <<f>> \in Framed
<1>1. <<f>> \in Seq(Seq(Byte)) /\ Len(<<f>>) = 1 /\ <<f>>[1] = f
  OBVIOUS
<1> QED
  BY <1>1 DEF Framed

\* Frames after frames
LEMMA FramedConcat ==
    ASSUME NEW a \in Framed, NEW b \in Framed
    PROVE  a \o b \in Framed
<1>1. a \in Seq(Seq(Byte)) /\ b \in Seq(Seq(Byte))
  BY DEF Framed
<1>2. /\ a \o b \in Seq(Seq(Byte)) /\ Len(a \o b) = Len(a) + Len(b)
      /\ \A k \in 1..Len(a \o b) : \/ k \in 1..Len(a) /\ (a \o b)[k] = a[k]
                                   \/ k - Len(a) \in 1..Len(b) /\ (a \o b)[k] = b[k - Len(a)]
  BY <1>1
<1> QED
  BY <1>2 DEF Framed

\* All frames but the first
LEMMA FramedTail ==
    ASSUME NEW a \in Framed, a # <<>>
    PROVE  Tail(a) \in Framed /\ Head(a) \in Seq(Byte) /\ Head(a) # <<>> /\ Len(Head(a)) <= FrameSize
<1>1. a \in Seq(Seq(Byte)) /\ \A k \in 1..Len(a) : a[k] # <<>> /\ Len(a[k]) <= FrameSize
  BY DEF Framed
<1>2. /\ Tail(a) \in Seq(Seq(Byte)) /\ Len(Tail(a)) = Len(a) - 1 /\ Len(a) \in Nat \ {0}
      /\ \A k \in 1..Len(Tail(a)) : Tail(a)[k] = a[k + 1]
      /\ Head(a) = a[1] /\ a[1] \in Seq(Byte)
  BY <1>1
<1>3. 1 \in 1..Len(a) /\ \A k \in 1..Len(Tail(a)) : k + 1 \in 1..Len(a)
  BY <1>2
<1>4. \A k \in 1..Len(Tail(a)) : Tail(a)[k] # <<>> /\ Len(Tail(a)[k]) <= FrameSize
  BY <1>1, <1>2, <1>3, Zenon
<1> QED
  BY <1>1, <1>2, <1>3, <1>4 DEF Framed

-----------------------------------------------------------------------------
(* The threads of the Mux and the receivers.                               *)

UplinkType ==
    /\ batch \in [MuxClients -> [stream_id: Byte, staged: Seq(Byte)]]
    /\ calls \subseteq MuxClients
    /\ serving \in calls \cup {NoClient}
    /\ frames \in Framed
    /\ registry_emitted \in BOOLEAN

IrqType ==
    /\ rx_stream \in DemuxSinks \cup {-1}
    /\ rx_escape \in BOOLEAN
    /\ storing \subseteq DemuxSinks
    /\ ack \in Seq(Byte)

RingsType ==
    /\ ring \in [DemuxSinks -> Ring]
    /\ notified \subseteq DemuxSinks
    /\ awake \subseteq DemuxSinks
    /\ stored \in [DemuxSinks -> Seq(Byte)]
    /\ received \in [DemuxSinks -> Seq(Byte)]

UartType == uart_tx \in Seq(Byte) /\ uart_rx \in Seq(Byte)

RingsInv == RingsType /\ StoresWhereRoom /\ RingIsFifo

\* What it means to be a sequence of frames that fit
LEMMA FramedIs ==
    frames \in Framed <=> frames \in Seq(Seq(Byte)) /\ FramesHeld
<1>1. ASSUME frames \in Seq(Seq(Byte)) PROVE DOMAIN frames = 1..Len(frames)
  BY <1>1
<1> QED
  BY <1>1 DEF Framed, FramesHeld, FramesFit

\* The parts of the Mux's types
LEMMA MuxParts ==
    LInv <=> IInv /\ HDTypeOK /\ UplinkType /\ IrqType /\ RingsInv /\ UartType
BY FramedIs DEF LInv, CMTypeOK, UplinkType, IrqType, RingsInv, RingsType, UartType, Ring

\* What a call does to the frames: they fit whatever is staged.
LEMMA UplinkThreadStep ==
    ASSUME UplinkType, UartType, UplinkThread
    PROVE  UplinkType' /\ UartType' /\ UNCHANGED <<downlinkThread, receivers>>
<1>1. CASE PutUplink
  <2> DEFINE f == Head(frames)
  <2>1. /\ frames # <<>> /\ uart_tx' = Append(uart_tx, Head(f)) /\ UNCHANGED uart_rx
        /\ frames' = IF Len(f) = 1 THEN Tail(frames) ELSE <<Tail(f)>> \o Tail(frames)
        /\ UNCHANGED <<batch, calls, serving, registry_emitted, downlinkThread, receivers>>
    BY <1>1 DEF PutUplink
  <2>2. Tail(frames) \in Framed /\ f \in Seq(Byte) /\ f # <<>> /\ Len(f) <= FrameSize
    BY <2>1, FramedTail DEF UplinkType
  <2> HIDE DEF f
  <2>3. Head(f) \in Byte /\ Tail(f) \in Seq(Byte) /\ (Len(f) # 1 => Tail(f) # <<>>)
    BY <2>2, HeadAndTail
  <2>4. Len(Tail(f)) <= FrameSize
    <3>1. Len(Tail(f)) = Len(f) - 1 /\ Len(f) \in Nat
      BY <2>2
    <3> QED
      BY <2>2, <3>1, MuxAssumption
  <2>5. frames' \in Framed
    BY <2>1, <2>2, <2>3, <2>4, FramedOne, FramedConcat
  <2>6. uart_tx' \in Seq(Byte)
    BY <2>1, <2>3 DEF UartType
  <2> QED
    BY <2>1, <2>5, <2>6 DEF UplinkType, UartType
<1>2. CASE MuxReturn
  <2>1. serving \in calls /\ serving \in MuxClients
    BY <1>2 DEF MuxReturn, UplinkType
  <2>2. batch' \in [MuxClients -> [stream_id: Byte, staged: Seq(Byte)]]
    <3>1. batch' = [batch EXCEPT ![serving] = [batch[serving] EXCEPT !.staged = <<>>]]
      BY <1>2 DEF MuxReturn
    <3>2. batch[serving] \in [stream_id: Byte, staged: Seq(Byte)] /\ <<>> \in Seq(Byte)
      BY <2>1 DEF UplinkType
    <3>3. [batch[serving] EXCEPT !.staged = <<>>] \in [stream_id: Byte, staged: Seq(Byte)]
      BY <3>2
    <3> QED
      BY <2>1, <3>1, <3>3 DEF UplinkType
  <2> QED
    BY <1>2, <2>1, <2>2 DEF MuxReturn, UplinkType, UartType
<1>3. ASSUME NEW c \in MuxClients, MuxBatch(c) PROVE UplinkType' /\ UartType' /\ UNCHANGED <<downlinkThread, receivers>>
  <2>1. batch[c].stream_id \in Byte /\ batch[c].staged \in Seq(Byte)
    BY DEF UplinkType
  <2>2. RegistryFrames \o PayloadFrames(batch[c].stream_id, batch[c].staged) \in Framed
    BY <2>1, RegistryFitsFrame, PayloadFits, FramedConcat
  <2>3. frames' \in Framed /\ registry_emitted' \in BOOLEAN
    BY <1>3, <2>2 DEF MuxBatch, UplinkType
  <2>4. calls' \subseteq MuxClients /\ serving' \in calls' \cup {NoClient}
    BY <1>3 DEF MuxBatch, UplinkType
  <2> QED
    BY <1>3, <2>3, <2>4 DEF MuxBatch, UplinkType, UartType
<1> QED
  BY <1>1, <1>2, <1>3 DEF UplinkThread

\* A byte from the host keeps the rings in order, whatever it is.
LEMMA ReceiverInv ==
    ASSUME RingsInv, IrqType, NEW s \in DemuxSinks, Receiver(s)
    PROVE  RingsInv' /\ UNCHANGED <<uplinkThread, downlinkThread, uart_tx, uart_rx>>
<1>1. CASE Wake(s) \/ Sleep(s)
  <2>1. /\ notified' \subseteq DemuxSinks /\ awake' \subseteq DemuxSinks
        /\ UNCHANGED <<ring, stored, received, uplinkThread, downlinkThread, uart_tx, uart_rx>>
    BY <1>1 DEF Wake, Sleep, RingsInv, RingsType
  <2>2. UNCHANGED storing
    BY <2>1 DEF downlinkThread
  <2> QED
    BY <2>1, <2>2 DEF RingsInv, RingsType, StoresWhereRoom, RingIsFifo
<1>2. CASE TakeByte(s)
  <2> DEFINE r == ring[s]
             q == [r EXCEPT !.head = (@ + 1) % RingSize]
             b == r.buf[r.head]
  <2>1. /\ r.head # r.tail /\ received' = [received EXCEPT ![s] = Append(@, b)]
        /\ UNCHANGED <<notified, awake, stored, uplinkThread, downlinkThread, uart_tx, uart_rx>>
    BY <1>2 DEF TakeByte
  <2>2. ring' = [ring EXCEPT ![s] = q]
    BY <1>2 DEF TakeByte
  <2>3. r \in Ring /\ ring \in [DemuxSinks -> Ring]
    BY DEF RingsInv, RingsType
  <2>4. q \in Ring /\ Contents(r) = <<b>> \o Contents(q) /\ b \in Byte /\ (~RingFull(r) => ~RingFull(q))
    BY <2>1, <2>3, TakeRemovesFirst
  <2>5. Contents(q) \in Seq(Byte)
    BY <2>4, ContentsIs
  <2> HIDE DEF q, b
  <2>6. ring'[s] = q /\ \A x \in DemuxSinks : x # s => ring'[x] = ring[x]
    BY <2>2, <2>3
  <2>7. received[s] \in Seq(Byte)
    BY DEF RingsInv, RingsType
  <2>8. /\ received'[s] = Append(received[s], b) /\ \A x \in DemuxSinks : x # s => received'[x] = received[x]
        /\ received' \in [DemuxSinks -> Seq(Byte)]
    BY <2>1, <2>4 DEF RingsInv, RingsType
  <2>9. RingsType'
    BY <2>1, <2>2, <2>3, <2>4, <2>8 DEF RingsInv, RingsType
  <2>10. StoresWhereRoom'
    <3>1. UNCHANGED storing
      BY <2>1 DEF downlinkThread
    <3>2. \A x \in storing : storing = {x} /\ x \in DemuxSinks /\ ~RingFull(ring[x])
      BY DEF RingsInv, StoresWhereRoom, IrqType
    <3>3. \A x \in storing : ~RingFull(ring'[x])
      BY <2>4, <2>6, <3>2
    <3> QED
      BY <3>1, <3>2, <3>3 DEF StoresWhereRoom
  <2>11. stored[s] = received'[s] \o Contents(ring'[s])
    <3> DEFINE a == received[s]
               d == Contents(q)
               x == <<b>>
    <3>1. stored[s] = a \o (x \o d)
      BY <2>4 DEF RingsInv, RingIsFifo
    <3>2. Append(a, b) = a \o x /\ x \in Seq(Byte)
      BY <2>4, <2>7, SMTT(30)
    <3>3. a \in Seq(Byte) /\ d \in Seq(Byte)
      BY <2>5, <2>7
    <3> HIDE DEF a, d, x
    <3>4. a \o (x \o d) = (a \o x) \o d
      BY <3>2, <3>3
    <3>5. received'[s] = a \o x /\ Contents(ring'[s]) = d
      BY <2>6, <2>8, <3>2, Zenon DEF a, d
    <3> QED
      BY <3>1, <3>4, <3>5, Zenon
  <2>12. RingIsFifo'
    <3>1. \A x \in DemuxSinks : x # s => stored[x] = received'[x] \o Contents(ring'[x])
      BY <2>6, <2>8, Zenon DEF RingsInv, RingIsFifo
    <3>2. UNCHANGED stored
      BY <2>1
    <3> QED
      BY <2>11, <3>1, <3>2, Zenon DEF RingIsFifo
  <2> QED
    BY <2>1, <2>9, <2>10, <2>12 DEF RingsInv
<1> QED
  BY <1>1, <1>2 DEF Receiver

\* enqueue_stream_byte, before its barrier
LEMMA StoreInv ==
    ASSUME RingsInv, IrqType, storing = {}, NEW s \in DemuxSinks, NEW byte \in Byte,
           StoreByte(s, byte), UNCHANGED <<stored, received, awake>>, notified' \subseteq DemuxSinks
    PROVE  RingsInv' /\ storing' \subseteq DemuxSinks
<1>1. CASE RingFull(ring[s])
  <2>1. UNCHANGED <<ring, storing>>
    BY <1>1 DEF StoreByte
  <2> QED
    BY <2>1 DEF RingsInv, RingsType, StoresWhereRoom, RingIsFifo, IrqType
<1>2. CASE ~RingFull(ring[s])
  <2> DEFINE r == ring[s]
             q == [r EXCEPT !.buf[r.tail] = byte]
  <2>1. ring' = [ring EXCEPT ![s] = q] /\ storing' = {s}
    BY <1>2 DEF StoreByte
  <2>2. r \in Ring /\ ring \in [DemuxSinks -> Ring]
    BY DEF RingsInv, RingsType
  <2>3. q \in Ring /\ Contents(q) = Contents(r) /\ (RingFull(q) <=> RingFull(r))
    BY <2>2, StoreKeepsContents
  <2> HIDE DEF q
  <2>4. ring'[s] = q /\ \A x \in DemuxSinks : x # s => ring'[x] = ring[x]
    BY <2>1, <2>2
  <2>5. \A x \in DemuxSinks : Contents(ring'[x]) = Contents(ring[x])
    BY <2>3, <2>4, Zenon
  <2>6. RingsType'
    BY <2>1, <2>2, <2>3 DEF RingsInv, RingsType
  <2>7. StoresWhereRoom'
    BY <1>2, <2>1, <2>3, <2>4 DEF StoresWhereRoom
  <2>8. RingIsFifo'
    BY <2>5, Zenon DEF RingsInv, RingIsFifo
  <2> QED
    BY <2>1, <2>6, <2>7, <2>8 DEF RingsInv
<1> QED
  BY <1>1, <1>2

\* ... and after it
LEMMA PublishInv ==
    ASSUME RingsInv, IrqType, PublishByte
    PROVE  RingsInv' /\ storing' = {}
<1>1. PICK s \in storing : /\ ring' = [ring EXCEPT ![s].tail = NextTail(ring[s])]
                           /\ stored' = [stored EXCEPT ![s] = Append(@, ring[s].buf[ring[s].tail])]
  BY DEF PublishByte
<1> DEFINE r == ring[s]
           q == [r EXCEPT !.tail = NextTail(r)]
           b == r.buf[r.tail]
<1>2. s \in DemuxSinks /\ ~RingFull(r) /\ r \in Ring /\ ring \in [DemuxSinks -> Ring]
  BY <1>1 DEF RingsInv, RingsType, StoresWhereRoom, IrqType
<1>3. storing' = {} /\ UNCHANGED <<notified, awake, received>>
  BY DEF PublishByte
<1>4. q \in Ring /\ Contents(q) = Append(Contents(r), b)
  BY <1>2, PublishAppends
<1>5. b \in Byte /\ Contents(r) \in Seq(Byte)
  BY <1>2, RingFacts, ContentsIs
<1>6. ring' = [ring EXCEPT ![s] = q]
  BY <1>1
<1> HIDE DEF q, b
<1>7. ring'[s] = q /\ \A x \in DemuxSinks : x # s => ring'[x] = ring[x]
  BY <1>2, <1>6
<1>8. /\ stored'[s] = Append(stored[s], b) /\ \A x \in DemuxSinks : x # s => stored'[x] = stored[x]
      /\ stored' \in [DemuxSinks -> Seq(Byte)]
  BY <1>1, <1>2, <1>5 DEF RingsInv, RingsType, b
<1>9. RingsType'
  BY <1>2, <1>3, <1>4, <1>6, <1>8 DEF RingsInv, RingsType
<1>10. stored'[s] = received[s] \o Contents(ring'[s])
  <2> DEFINE a == received[s]
             d == Contents(r)
  <2>1. a \in Seq(Byte) /\ d \in Seq(Byte) /\ b \in Byte
    BY <1>2, <1>5 DEF RingsInv, RingsType
  <2>2. stored[s] = a \o d
    BY <1>2 DEF RingsInv, RingIsFifo
  <2> HIDE DEF a, d
  <2>3. Append(a \o d, b) = a \o Append(d, b)
    BY <2>1
  <2> QED
    BY <1>4, <1>7, <1>8, <2>2, <2>3, Zenon DEF a, d
<1>11. RingIsFifo'
  <2>1. \A x \in DemuxSinks : x # s => stored'[x] = received[x] \o Contents(ring'[x])
    BY <1>7, <1>8, Zenon DEF RingsInv, RingIsFifo
  <2>2. UNCHANGED received
    BY <1>3
  <2> QED
    BY <1>10, <2>1, <2>2, Zenon DEF RingIsFifo
<1> QED
  BY <1>3, <1>9, <1>11 DEF RingsInv, StoresWhereRoom

\* The interrupt thread keeps the Mux's part.
LEMMA IrqThreadStep ==
    ASSUME RingsInv, IrqType, UartType, IrqThread
    PROVE  RingsInv' /\ IrqType' /\ UartType' /\ UNCHANGED uplinkThread
<1>1. CASE PublishByte
  <2>1. UNCHANGED <<uplinkThread, rx_stream, rx_escape, ack, uart_tx, uart_rx>>
    BY <1>1 DEF PublishByte
  <2> QED
    BY <1>1, <2>1, PublishInv DEF IrqType, UartType
<1>2. CASE PutAck
  <2>1. /\ ack # <<>> /\ uart_tx' = Append(uart_tx, Head(ack)) /\ ack' = Tail(ack)
        /\ UNCHANGED <<uplinkThread, rx_stream, rx_escape, storing, receivers, uart_rx>>
    BY <1>2 DEF PutAck
  <2>2. Head(ack) \in Byte /\ Tail(ack) \in Seq(Byte)
    BY <2>1, HeadAndTail DEF IrqType
  <2>3. uart_tx' \in Seq(Byte)
    BY <2>1, <2>2 DEF UartType
  <2>4. RingsInv'
    BY <2>1 DEF receivers, RingsInv, RingsType, StoresWhereRoom, RingIsFifo
  <2> QED
    BY <2>1, <2>2, <2>3, <2>4 DEF IrqType, UartType
<1>3. CASE FeedDownlinkByte
  <2> DEFINE byte == Head(uart_rx)
  <2>1. /\ storing = {} /\ ack = <<>> /\ uart_rx # <<>> /\ uart_rx' = Tail(uart_rx)
        /\ \/ DownlinkDefault(byte) \/ DownlinkEscape(byte) \/ DownlinkStream(byte)
           \/ DownlinkEscapeStart(byte) \/ DownlinkPayload(byte)
        /\ UNCHANGED <<uplinkThread, awake, stored, received, uart_tx>>
    BY <1>3 DEF FeedDownlinkByte, IrqIdle
  <2>2. byte \in Byte /\ uart_rx' \in Seq(Byte)
    BY <2>1, HeadAndTail DEF UartType
  <2>3. UartType'
    BY <2>1, <2>2 DEF UartType
  <2> HIDE DEF byte
  <2>4. CASE DownlinkEscape(byte) \/ DownlinkPayload(byte) \/ DownlinkEscapeStart(byte)
    <3>1. UNCHANGED <<rx_stream, ack, notified>> /\ rx_escape' \in BOOLEAN
      BY <2>4 DEF DownlinkEscape, DownlinkPayload, DownlinkEscapeStart, IrqType
    <3>2. CASE UNCHANGED <<ring, storing>>
      BY <2>1, <2>3, <3>1, <3>2 DEF RingsInv, RingsType, StoresWhereRoom, RingIsFifo, IrqType
    <3>3. CASE rx_stream >= 0 /\ StoreByte(rx_stream, byte)
      <4>1. rx_stream \in DemuxSinks
        BY <3>3 DEF IrqType
      <4>2. RingsInv' /\ storing' \subseteq DemuxSinks
        BY <2>1, <2>2, <3>1, <3>3, <4>1, StoreInv DEF RingsInv, RingsType
      <4> QED
        BY <2>1, <2>3, <3>1, <4>2 DEF IrqType
    <3> QED
      BY <2>1, <2>3, <2>4, <3>2, <3>3 DEF DownlinkEscape, DownlinkPayload, DownlinkEscapeStart
  <2>5. CASE DownlinkDefault(byte) \/ DownlinkStream(byte)
    <3>1. /\ UNCHANGED <<storing, ring>> /\ rx_escape' \in BOOLEAN
          /\ rx_stream' \in DemuxSinks \cup {-1}
          /\ notified' = notified \cup ({rx_stream} \cap DemuxSinks)
      BY <2>5 DEF DownlinkDefault, DownlinkStream, Notify
    <3>2. EncodeAck \in Seq(Byte) /\ <<>> \in Seq(Byte)
      BY MuxBytes DEF EncodeAck
    <3>3. ack' \in Seq(Byte)
      BY <2>5, <3>2 DEF DownlinkDefault, DownlinkStream, IrqType
    <3>4. IrqType'
      BY <3>1, <3>3 DEF IrqType
    <3>5. RingsInv'
      BY <2>1, <3>1 DEF RingsInv, RingsType, StoresWhereRoom, RingIsFifo
    <3> QED
      BY <2>1, <2>3, <3>4, <3>5
  <2> QED
    BY <2>1, <2>4, <2>5
<1> QED
  BY <1>1, <1>2, <1>3 DEF IrqThread

-----------------------------------------------------------------------------
(* The host: what its threads write to the link are bytes.                 *)

\* The host's fragments are bytes.
LEMMA FragmentType ==
    ASSUME TypeOK, HDTypeOK, NEW i \in PtyIdx
    PROVE  Fragment(i) \in Seq(Byte) /\ FragmentLen(i) \in Nat /\ FragmentLen(i) <= Len(buf[i])
<1> DEFINE b == buf[i]
           n == FragmentLen(i)
           c == SubSeq(b, 1, n)
<1>1. b \in Seq(Byte) /\ Len(b) \in Nat
  BY DEF HDTypeOK
<1>2. n \in Nat /\ n <= Len(b)
  BY <1>1, DownlinkAssumption DEF FragmentLen
<1> HIDE DEF n
<1>3. c \in Seq(Byte)
  BY <1>1, <1>2
<1> HIDE DEF c
<1>4. EscapePayload(c) \in Seq(Byte)
  BY <1>3, EscapeType
<1>5. tags[i].value \in Byte
  BY DEF TypeOK, Tag
<1> DEFINE d == EscapePayload(c)
           h == <<ESC, tags[i].value>>
           e == <<ESC, DEFAULT>>
<1>6. h \in Seq(Byte) /\ e \in Seq(Byte) /\ d \in Seq(Byte)
  BY <1>4, <1>5, MuxBytes
<1>7. EncodeData(tags[i].value, c) = (h \o d) \o e
  BY DEF EncodeData
<1> HIDE DEF d, h, e
<1>8. h \o d \in Seq(Byte)
  BY <1>6
<1>9. (h \o d) \o e \in Seq(Byte)
  BY <1>6, <1>8, ConcatProperties, Zenon
<1>10. Fragment(i) \in {c, EncodeData(tags[i].value, c)}
  BY LinkAssumption DEF Fragment, ToOuter, c, n
<1> QED
  BY <1>2, <1>3, <1>7, <1>9, <1>10 DEF n

\* The end and the beginning of a buffer
LEMMA PartOfBytes ==
    ASSUME NEW s \in Seq(Byte), NEW n \in Nat, n <= Len(s)
    PROVE  SubSeq(s, 1, n) \in Seq(Byte) /\ SubSeq(s, n + 1, Len(s)) \in Seq(Byte)
OBVIOUS

\* What is written of a fragment are bytes.
LEMMA WriteFragmentType ==
    ASSUME TypeOK, HDTypeOK, NEW i \in PtyIdx, WriteFragment(i)
    PROVE  HDTypeOK'
<1> DEFINE f == Fragment(i)
<1>1. f \in Seq(Byte) /\ Len(f) \in Nat
  BY FragmentType
<1>2. UNCHANGED <<typed, greeting>>
  BY DEF WriteFragment
<1>3. \/ tty' = tty \/ tty' = tty \o f
      \/ \E n \in 0..(Len(f) - 1) : tty' = tty \o SubSeq(f, 1, n)
  BY DEF WriteFragment
<1>4. (Processed(i) /\ UNCHANGED write_lock) \/ GiveUp(i)
  BY DEF WriteFragment
<1> HIDE DEF f
<1>5. \A n \in 0..(Len(f) - 1) : SubSeq(f, 1, n) \in Seq(Byte)
  BY <1>1, PartOfBytes
<1>6. tty' \in Seq(Byte)
  <2>1. tty \in Seq(Byte)
    BY DEF HDTypeOK
  <2> QED
    BY <1>1, <1>3, <1>5, <2>1, ConcatProperties, Zenon
<1>7. buf' \in [PtyIdx -> Seq(Byte)]
  <2>1. buf[i] \in Seq(Byte) /\ <<>> \in Seq(Byte)
    BY DEF HDTypeOK
  <2>2. SubSeq(buf[i], FragmentLen(i) + 1, Len(buf[i])) \in Seq(Byte)
    BY <2>1, FragmentType, PartOfBytes
  <2> QED
    BY <1>4, <2>1, <2>2 DEF Processed, GiveUp, HDTypeOK
<1>8. write_lock' \subseteq PtyIdx
  BY <1>4 DEF GiveUp, HDTypeOK
<1> QED
  BY <1>2, <1>6, <1>7, <1>8 DEF HDTypeOK

\* The host's reader of a PTY keeps the types.
LEMMA PtyThreadType ==
    ASSUME TypeOK, HDTypeOK, NEW i \in PtyIdx, PtyThread(i)
    PROVE  HDTypeOK'
<1>1. CASE ReadPty(i)
  <2>1. PICK n \in 1..ReadSize :
          /\ n <= Len(typed[i])
          /\ typed' = [typed EXCEPT ![i] = SubSeq(@, n + 1, Len(@))]
          /\ buf' = buf \/ buf' = [buf EXCEPT ![i] = SubSeq(typed[i], 1, n)]
    BY <1>1 DEF ReadPty
  <2>2. UNCHANGED <<write_lock, tty, greeting>>
    BY <1>1 DEF ReadPty
  <2>3. typed[i] \in Seq(Byte) /\ n \in Nat
    BY DownlinkAssumption DEF HDTypeOK
  <2>4. SubSeq(typed[i], 1, n) \in Seq(Byte) /\ SubSeq(typed[i], n + 1, Len(typed[i])) \in Seq(Byte)
    BY <2>1, <2>3, PartOfBytes
  <2> QED
    BY <2>1, <2>2, <2>4 DEF HDTypeOK
<1>2. CASE LockTty(i) \/ UnlockTty(i)
  BY <1>2 DEF LockTty, UnlockTty, HDTypeOK
<1>3. CASE WriteFragment(i)
  BY <1>3, WriteFragmentType
<1> QED
  BY <1>1, <1>2, <1>3 DEF PtyThread

\* A link that is opened again keeps the types.
LEMMA ReopenType ==
    ASSUME HDTypeOK, ReopenTty \/ PutGreeting
    PROVE  HDTypeOK'
<1>1. CASE ReopenTty
  <2>1. <<0, OUTER_ESC, OUTER_RESET>> \in Seq(Byte)
    BY MuxBytes DEF DEFAULT
  <2> QED
    BY <1>1, <2>1 DEF ReopenTty, HDTypeOK
<1>2. CASE PutGreeting
  <2>1. greeting # <<>> /\ greeting \in Seq(Byte)
    BY <1>2 DEF PutGreeting, HDTypeOK
  <2>2. Head(greeting) \in Byte /\ Tail(greeting) \in Seq(Byte)
    BY <2>1, HeadAndTail
  <2>3. Append(tty, Head(greeting)) \in Seq(Byte)
    BY <2>2 DEF HDTypeOK
  <2> QED
    BY <1>2, <2>2, <2>3 DEF PutGreeting, HDTypeOK
<1> QED
  BY <1>1, <1>2

-----------------------------------------------------------------------------
(* The link.                                                               *)

\* LInv, initially
LEMMA LInitLInv == LInit => LInv
<1>1. SUFFICES ASSUME LInit PROVE LInv
  OBVIOUS
<1>2. IInv
  BY <1>1, InitIInv DEF LInit
<1>3. HDTypeOK
  BY <1>1 DEF LInit, HDInit, HDTypeOK
<1>4. UplinkType
  <2>1. <<>> \in Framed
    BY DEF Framed
  <2>2. 0 \in Byte /\ <<>> \in Seq(Byte)
    BY MuxBytes DEF DEFAULT
  <2> QED
    BY <1>1, <2>1, <2>2 DEF LInit, GSInit, CMInit, UplinkType
<1>5. IrqType /\ UartType
  <2>1. /\ rx_stream = -1 /\ rx_escape = FALSE /\ storing = {} /\ ack = <<>>
        /\ uart_tx = <<>> /\ uart_rx = <<>>
    BY <1>1 DEF LInit, GSInit, CMInit
  <2>2. <<>> \in Seq(Byte)
    OBVIOUS
  <2> QED
    BY <2>1, <2>2 DEF IrqType, UartType
<1>6. RingsInv
  <2> DEFINE r == [head |-> 0, tail |-> 0, buf |-> [i \in RingIdx |-> 0]]
  <2>1. r \in Ring
    BY MuxAssumption, MuxBytes DEF Ring, RingIdx, DEFAULT
  <2>2. Count(r) = 0
    BY MuxAssumption DEF Count, Wrapped
  <2> HIDE DEF r
  <2>3. Contents(r) \in Seq(Byte) /\ Len(Contents(r)) = 0
    BY <2>1, <2>2, ContentsIs
  <2>4. Contents(r) = <<>>
    BY <2>3, EmptySeq
  <2>5. ring = [s \in DemuxSinks |-> r] /\ storing = {}
    BY <1>1 DEF LInit, GSInit, CMInit, r
  <2>6. /\ stored = [s \in DemuxSinks |-> <<>>] /\ received = [s \in DemuxSinks |-> <<>>]
        /\ notified = {} /\ awake = {}
    BY <1>1 DEF LInit, GSInit, CMInit
  <2>7. RingsType
    BY <2>1, <2>5, <2>6 DEF RingsType
  <2>8. RingIsFifo
    BY <2>4, <2>5, <2>6 DEF RingIsFifo
  <2> QED
    BY <2>5, <2>7, <2>8 DEF RingsInv, StoresWhereRoom
<1> QED
  BY <1>2, <1>3, <1>4, <1>5, <1>6, MuxParts

\* What the Mux shares with nobody but its clients and the UART
LEMMA MuxUnchanged ==
    ASSUME UplinkType, IrqType, RingsInv, UartType
    PROVE  /\ UNCHANGED uplinkThread => UplinkType'
           /\ UNCHANGED downlinkThread => IrqType'
           /\ UNCHANGED <<downlinkThread, receivers>> => RingsInv'
           /\ UNCHANGED <<uart_tx, uart_rx>> => UartType'
BY DEF uplinkThread, downlinkThread, receivers, UplinkType, IrqType, RingsInv, RingsType,
       StoresWhereRoom, RingIsFifo, UartType

\* The host's part does not depend on the Mux.
LEMMA HostUnchanged ==
    /\ HDTypeOK /\ UNCHANGED hdvars => HDTypeOK'
    /\ IInv /\ UNCHANGED vars => IInv'
<1>1. IInv /\ UNCHANGED vars => IInv'
  BY NextIInv
<1> QED
  BY <1>1 DEF hdvars, HDTypeOK

\* A client of the Mux keeps the invariant.
LEMMA GuestStep ==
    ASSUME UplinkType, NEW c \in MuxClients,
           FlushDone(c) \/ \E b \in PutBytes : Putchar(c, b)
    PROVE  UplinkType' /\ UNCHANGED <<downlinkThread, receivers, uart_tx, uart_rx>>
<1>1. StreamOf[c] \in Byte
  BY GuestSinkAssumption
<1>2. CASE FlushDone(c)
  <2>1. [stream_id |-> StreamOf[c], staged |-> <<>>] \in [stream_id: Byte, staged: Seq(Byte)]
    BY <1>1
  <2> QED
    BY <1>2, <2>1 DEF FlushDone, UplinkType
<1>3. ASSUME NEW b \in PutBytes, Putchar(c, b)
      PROVE  UplinkType' /\ UNCHANGED <<downlinkThread, receivers, uart_tx, uart_rx>>
  <2>1. Staged(c) \in Seq(Byte) /\ b \in Byte
    BY LinkAssumption DEF Staged, UplinkType
  <2> DEFINE s == Append(Staged(c), b)
  <2>2. s \in Seq(Byte)
    BY <2>1
  <2>3. /\ batch' = [batch EXCEPT ![c] = [stream_id |-> StreamOf[c], staged |-> s]]
        /\ calls' = calls \/ calls' = calls \cup {c}
        /\ UNCHANGED <<serving, frames, registry_emitted, downlinkThread, receivers, uart_tx, uart_rx>>
    BY <1>3 DEF Putchar
  <2> HIDE DEF s
  <2>4. batch' \in [MuxClients -> [stream_id: Byte, staged: Seq(Byte)]]
    BY <1>1, <2>2, <2>3 DEF UplinkType
  <2> QED
    BY <2>3, <2>4 DEF UplinkType
<1> QED
  BY <1>2, <1>3

\* Every step keeps LInv.
LEMMA LNextLInv == LInv /\ [LNext]_lvars => LInv'
<1> SUFFICES ASSUME LInv, [LNext]_lvars PROVE LInv'
  OBVIOUS
<1>1. IInv /\ HDTypeOK /\ UplinkType /\ IrqType /\ RingsInv /\ UartType /\ TypeOK
  BY MuxParts DEF IInv, DemuxInv
<1>2. SUFFICES IInv' /\ HDTypeOK' /\ UplinkType' /\ IrqType' /\ RingsInv' /\ UartType'
  BY MuxParts, PTL
<1>3. ASSUME NEW c \in MuxClients, SinkReturns(c) \/ \E b \in PutBytes : GuestPrints(c, b)
      PROVE  IInv' /\ HDTypeOK' /\ UplinkType' /\ IrqType' /\ RingsInv' /\ UartType'
  <2>1. UNCHANGED <<vars, hdvars>> /\ (FlushDone(c) \/ \E b \in PutBytes : Putchar(c, b))
    BY <1>3 DEF SinkReturns, GuestPrints
  <2> QED
    BY <1>1, <2>1, GuestStep, MuxUnchanged, HostUnchanged
<1>4. CASE MuxUplinkStep
  <2>1. UplinkThread /\ UNCHANGED <<vars, hdvars>>
    BY <1>4 DEF MuxUplinkStep
  <2> QED
    BY <1>1, <2>1, UplinkThreadStep, MuxUnchanged, HostUnchanged
<1>5. CASE MuxIrqStep
  <2>1. IrqThread /\ UNCHANGED <<vars, hdvars>>
    BY <1>5 DEF MuxIrqStep
  <2> QED
    BY <1>1, <2>1, IrqThreadStep, MuxUnchanged, HostUnchanged
<1>6. ASSUME NEW s \in DemuxSinks, ReceiverStep(s)
      PROVE  IInv' /\ HDTypeOK' /\ UplinkType' /\ IrqType' /\ RingsInv' /\ UartType'
  <2>1. Receiver(s) /\ UNCHANGED <<vars, hdvars>>
    BY <1>6 DEF ReceiverStep
  <2> QED
    BY <1>1, <2>1, ReceiverInv, MuxUnchanged, HostUnchanged
<1>7. CASE HostReceives
  <2>1. /\ uart_tx # <<>> /\ Feed(Head(uart_tx)) /\ uart_tx' = Tail(uart_tx)
        /\ UNCHANGED <<uplinkThread, downlinkThread, receivers, uart_rx, hdvars>>
    BY <1>7 DEF HostReceives
  <2>2. Head(uart_tx) \in Byte /\ Tail(uart_tx) \in Seq(Byte)
    BY <1>1, <2>1, HeadAndTail DEF UartType
  <2>3. IInv'
    BY <1>1, <2>1, <2>2, NextIInv DEF Next
  <2>4. UartType'
    BY <1>1, <2>1, <2>2 DEF UartType
  <2> QED
    BY <1>1, <2>1, <2>3, <2>4, MuxUnchanged, HostUnchanged
<1>8. ASSUME NEW i \in TypeInto, NEW b \in TypeBytes, UserTypes(i, b)
      PROVE  IInv' /\ HDTypeOK' /\ UplinkType' /\ IrqType' /\ RingsInv' /\ UartType'
  <2>1. Type(i, b) /\ UNCHANGED gsvars
    BY <1>8 DEF UserTypes
  <2>2. i \in PtyIdx /\ b \in Byte
    BY LinkAssumption
  <2>3. HDTypeOK' /\ UNCHANGED vars
    BY <1>1, <2>1, <2>2 DEF Type, HDTypeOK
  <2> QED
    BY <1>1, <2>1, <2>3, MuxUnchanged, HostUnchanged DEF gsvars, cmvars
<1>9. ASSUME NEW i \in PtyIdx, HostWrites(i)
      PROVE  IInv' /\ HDTypeOK' /\ UplinkType' /\ IrqType' /\ RingsInv' /\ UartType'
  <2>1. PtyThread(i) /\ UNCHANGED gsvars
    BY <1>9 DEF HostWrites
  <2>2. UNCHANGED vars
    BY <2>1 DEF PtyThread, ReadPty, LockTty, WriteFragment, UnlockTty
  <2> QED
    BY <1>1, <2>1, <2>2, PtyThreadType, MuxUnchanged, HostUnchanged DEF gsvars, cmvars
<1>10. CASE HostReopens
  <2>1. (ReopenTty \/ PutGreeting) /\ UNCHANGED gsvars
    BY <1>10 DEF HostReopens
  <2>2. UNCHANGED vars
    BY <2>1 DEF ReopenTty, PutGreeting
  <2> QED
    BY <1>1, <2>1, <2>2, ReopenType, MuxUnchanged, HostUnchanged DEF gsvars, cmvars
<1>11. CASE LinkDown
  <2>1. /\ tty # <<>> /\ uart_rx' = <<Head(tty)>> /\ tty' = Tail(tty)
        /\ UNCHANGED <<uplinkThread, downlinkThread, receivers, uart_tx, vars,
                       typed, buf, write_lock, greeting>>
    BY <1>11 DEF LinkDown
  <2>2. Head(tty) \in Byte /\ Tail(tty) \in Seq(Byte)
    BY <1>1, <2>1, HeadAndTail DEF HDTypeOK
  <2>3. UartType' /\ HDTypeOK'
    BY <1>1, <2>1, <2>2 DEF UartType, HDTypeOK
  <2> QED
    BY <1>1, <2>1, <2>3, MuxUnchanged, HostUnchanged
<1>12. CASE UNCHANGED lvars
  BY <1>1, <1>12, MuxUnchanged, HostUnchanged DEF lvars, gsvars, cmvars
<1> QED
  BY <1>3, <1>4, <1>5, <1>6, <1>7, <1>8, <1>9, <1>10, <1>11, <1>12 DEF LNext

\* LInv is an invariant of the link.
LEMMA LInductive == LSpec => []LInv
BY LInitLInv, LNextLInv, PTL DEF LSpec

\* The Mux is well formed whatever its clients, the host and the link do: no
\* index leaves its ring and what it puts on the UART are bytes.
THEOREM MuxTypeCorrect == LSpec => []CMTypeOK
<1>1. LInv => CMTypeOK
  BY DEF LInv
<1> QED
  BY <1>1, LInductive, PTL

\* For every size of a ring, with the interrupt thread storing and publishing and
\* the receiver taking at the same time and without a lock, a ring is a FIFO.
THEOREM RingsAreFifo == LSpec => []RingIsFifo
<1>1. LInv => RingIsFifo
  BY DEF LInv
<1> QED
  BY <1>1, LInductive, PTL

\* For every payload, registry and size of console_mux_frame the frames built by
\* emit_framed_payload and maybe_emit_registry stay within it.
THEOREM FramesFitBuffer == LSpec => []FramesFit
<1>1. LInv => FramesFit
  BY DEF LInv, FramesHeld
<1> QED
  BY <1>1, LInductive, PTL

\* The order in which sequences of bytes are put together does not matter.
Joins(a, b, c) ==
    /\ a \o b \in Seq(Byte) /\ b \o c \in Seq(Byte) /\ (a \o b) \o c \in Seq(Byte)
    /\ (a \o b) \o c = a \o (b \o c)

\* Sequences of bytes put together
LEMMA ByteJoins ==
    ASSUME NEW a \in Seq(Byte), NEW b \in Seq(Byte), NEW c \in Seq(Byte)
    PROVE  Joins(a, b, c)
<1>1. Regrouped(a, b, c)
  BY Regroup, Zenon
<1>2. a \o b \in Seq(Byte) /\ b \o c \in Seq(Byte)
  OBVIOUS
<1> DEFINE ab == a \o b
<1>3. ab \in Seq(Byte)
  BY <1>2
<1> HIDE DEF ab
<1>4. ab \o c \in Seq(Byte)
  BY <1>3
<1> QED
  BY <1>1, <1>2, <1>4 DEF Joins, Regrouped, ab

-----------------------------------------------------------------------------
(* What the bytes of a VCMux link carry, in either direction.              *)

\* A byte for stream to (0 for none), or SELECT: from here on, bytes are for it.
SELECT == ByteMax + 1
Item == [to: Byte \ {ESC}, byte: Byte \cup {SELECT}]

\* The byte after the escape of an item that has one
Second(x) == IF x.byte = SELECT THEN x.to ELSE ESC

CodeOf == [x \in Item |-> IF x.byte \in {SELECT, ESC} THEN <<ESC, Second(x)>> ELSE <<x.byte>>]
DataOf(s) == [x \in Item |-> IF x.to = s /\ x.byte # SELECT THEN <<x.byte>> ELSE <<>>]

Code(q) == Spread(CodeOf, q)
Given(s, q) == Spread(DataOf(s), q)

\* The stream that is selected after the first k items, c before them
At(q, c, k) == IF k = 0 THEN c ELSE q[k].to

\* Every byte is for the stream selected last: c before the items, d after them.
Routed(q, c, d) ==
    /\ \A k \in 1..Len(q) : q[k].byte # SELECT => q[k].to = At(q, c, k - 1)
    /\ At(q, c, Len(q)) = d

\* A receiver that has selected c, and read an escape if esc, has still to read the
\* items q from the bytes w; no stream is selected at their end.
Pending(q, w, c, esc) ==
    /\ Routed(q, c, 0)
    /\ IF esc THEN /\ q # <<>> /\ Head(q).byte \in {SELECT, ESC}
                   /\ w = <<Second(Head(q))>> \o Code(Tail(q))
              ELSE w = Code(q)

\* The functions have their types.
LEMMA ItemFacts ==
    /\ CodeOf \in [Item -> Seq(Byte)]
    /\ \A s : DataOf(s) \in [Item -> Seq(Byte)]
    /\ \A x \in Item : x.byte # SELECT => x.byte \in Byte
    /\ \A x \in Item : Second(x) \in Byte /\ x.to \in Byte \ {ESC}
    /\ SELECT \notin Byte /\ ESC \in Byte /\ DEFAULT \in Byte \ {ESC}
<1>1. SELECT \notin Byte /\ ESC \in Byte /\ DEFAULT \in Byte \ {ESC}
  BY ByteMaxAssumption DEF Byte, SELECT, ESC, DEFAULT
<1>2. \A x \in Item : (x.byte # SELECT => x.byte \in Byte) /\ x.to \in Byte \ {ESC}
  BY DEF Item
<1>4. \A x \in Item : Second(x) \in Byte
  BY <1>1, <1>2 DEF Second
<1>5. ASSUME NEW x \in Item
      PROVE  /\ CodeOf[x] \in Seq(Byte) /\ \A i : DataOf(i)[x] \in Seq(Byte)
  <2> DEFINE e == Second(x)
  <2>1. e \in Byte /\ (x.byte \notin {SELECT, ESC} => x.byte \in Byte)
    BY <1>2, <1>4
  <2>2. CodeOf[x] = IF x.byte \in {SELECT, ESC} THEN <<ESC, e>> ELSE <<x.byte>>
    BY DEF CodeOf
  <2>3. \A i : DataOf(i)[x] = IF x.to = i /\ x.byte # SELECT THEN <<x.byte>> ELSE <<>>
    BY DEF DataOf
  <2> HIDE DEF e
  <2>4. <<ESC, e>> \in Seq(Byte) /\ <<>> \in Seq(Byte)
    BY <2>1, <1>1
  <2>5. x.byte \in Byte => <<x.byte>> \in Seq(Byte)
    OBVIOUS
  <2> QED
    BY <1>2, <2>1, <2>2, <2>3, <2>4, <2>5, Zenon
<1>6. CodeOf \in [Item -> Seq(Byte)]
  BY <1>5 DEF CodeOf
<1>7. ASSUME NEW i PROVE DataOf(i) \in [Item -> Seq(Byte)]
  BY <1>5 DEF DataOf
<1> QED
  BY <1>1, <1>2, <1>4, <1>6, <1>7

\* Items are coded, and carry data, one after the other.
LEMMA CodeConcat ==
    ASSUME NEW q \in Seq(Item), NEW r \in Seq(Item)
    PROVE  /\ Code(q) \in Seq(Byte) /\ Code(q \o r) = Code(q) \o Code(r)
           /\ \A s : Given(s, q) \in Seq(Byte) /\ Given(s, q \o r) = Given(s, q) \o Given(s, r)
<1>1. SpreadsApart(CodeOf, q, r) /\ \A s : SpreadsApart(DataOf(s), q, r)
  BY ItemFacts, SpreadConcat
<1>2. Spread(CodeOf, q) \in Seq(Byte) /\ \A s : Spread(DataOf(s), q) \in Seq(Byte)
  BY ItemFacts, SpreadType
<1> QED
  BY <1>1, <1>2, Zenon DEF SpreadsApart, Code, Given

\* The types alone
LEMMA CodeType ==
    ASSUME NEW q \in Seq(Item)
    PROVE  Code(q) \in Seq(Byte) /\ \A s : Given(s, q) \in Seq(Byte)
BY ItemFacts, SpreadType DEF Code, Given

\* Of one item
LEMMA CodeOne ==
    ASSUME NEW x \in Item
    PROVE  Code(<<x>>) = CodeOf[x] /\ \A s : Given(s, <<x>>) = DataOf(s)[x]
<1>1. Code(<<x>>) = CodeOf[x]
  <2>1. CodeOf \in [Item -> Seq(Byte)]
    BY ItemFacts
  <2> QED
    BY <2>1, SpreadSingle DEF Code
<1>2. ASSUME NEW s PROVE Given(s, <<x>>) = DataOf(s)[x]
  <2> DEFINE F == DataOf(s)
  <2>1. F \in [Item -> Seq(Byte)]
    BY ItemFacts
  <2> HIDE DEF F
  <2>2. Spread(F, <<x>>) = F[x]
    BY <2>1, SpreadSingle
  <2> QED
    BY <2>2 DEF Given, F
<1> QED
  BY <1>1, <1>2

\* Of none
LEMMA CodeEmpty == Code(<<>>) = <<>> /\ \A s : Given(s, <<>>) = <<>>
BY SpreadEmpty DEF Code, Given

\* The first item comes first.
LEMMA CodeFirst ==
    ASSUME NEW q \in Seq(Item), q # <<>>
    PROVE  /\ Head(q) \in Item /\ Tail(q) \in Seq(Item)
           /\ Code(q) = CodeOf[Head(q)] \o Code(Tail(q))
           /\ \A s : Given(s, q) = DataOf(s)[Head(q)] \o Given(s, Tail(q))
<1>1. Head(q) \in Item /\ Tail(q) \in Seq(Item)
  BY HeadAndTail
<1>2. Code(q) = CodeOf[Head(q)] \o Code(Tail(q))
  <2>1. CodeOf \in [Item -> Seq(Byte)]
    BY ItemFacts
  <2>2. PICK F : F = CodeOf
    OBVIOUS
  <2>3. Spread(F, q) = F[Head(q)] \o Spread(F, Tail(q))
    BY <2>1, <2>2, SpreadFirst
  <2> QED
    BY <2>2, <2>3 DEF Code
<1>3. ASSUME NEW s PROVE Given(s, q) = DataOf(s)[Head(q)] \o Given(s, Tail(q))
  <2> DEFINE F == DataOf(s)
  <2>1. F \in [Item -> Seq(Byte)]
    BY ItemFacts
  <2> HIDE DEF F
  <2>2. Spread(F, q) = F[Head(q)] \o Spread(F, Tail(q))
    BY <2>1, SpreadFirst
  <2> QED
    BY <2>2 DEF Given, F
<1> QED
  BY <1>1, <1>2, <1>3

\* Items that follow are for the stream the first one was for.
LEMMA RoutedTail ==
    ASSUME NEW q \in Seq(Item), q # <<>>, NEW c, NEW d, Routed(q, c, d)
    PROVE  /\ Routed(Tail(q), Head(q).to, d)
           /\ Head(q).byte # SELECT => Head(q).to = c
<1> DEFINE n == Len(q)
           t == Tail(q)
           a == Head(q).to
<1>1. n \in Nat /\ n >= 1 /\ Head(q) = q[1]
  BY EmptySeq
<1>2. Len(t) = n - 1 /\ \A k \in 1..(n - 1) : t[k] = q[k + 1]
  BY <1>1
<1>3. \A k \in 1..n : q[k].byte # SELECT => q[k].to = At(q, c, k - 1)
  BY DEF Routed
<1> HIDE DEF n, t
<1>4. \A k \in 0..(n - 1) : At(t, a, k) = At(q, c, k + 1)
  <2> TAKE k \in 0..(n - 1)
  <2>1. k + 1 # 0 /\ (k # 0 => k \in 1..(n - 1))
    BY <1>1
  <2> QED
    BY <1>1, <1>2, <2>1 DEF At
<1>5. ASSUME NEW k \in 1..(n - 1), t[k].byte # SELECT
      PROVE  t[k].to = At(t, a, k - 1)
  <2> DEFINE m == k + 1
  <2>1. m \in 1..n /\ m - 1 = k /\ t[k] = q[m] /\ k - 1 \in 0..(n - 1) /\ (k - 1) + 1 = k
    BY <1>1, <1>2
  <2> HIDE DEF m
  <2>2. t[k].to = At(q, c, k)
    BY <1>3, <1>5, <2>1
  <2>3. At(t, a, k - 1) = At(q, c, k)
    BY <1>4, <2>1
  <2> QED
    BY <2>2, <2>3
<1>6. At(t, a, n - 1) = At(q, c, n)
  <2>1. n - 1 \in 0..(n - 1) /\ (n - 1) + 1 = n
    BY <1>1
  <2> QED
    BY <1>4, <2>1
<1>7. At(q, c, n) = d
  BY DEF Routed, n
<1>8. Routed(t, a, d)
  BY <1>2, <1>5, <1>6, <1>7 DEF Routed
<1>9. 1 \in 1..n /\ At(q, c, 1 - 1) = c
  BY <1>1 DEF At
<1> QED
  BY <1>1, <1>3, <1>8, <1>9 DEF t

\* Items go on for the stream that was selected at the end of others.
LEMMA RoutedConcat ==
    ASSUME NEW q \in Seq(Item), NEW r \in Seq(Item), NEW c, NEW d, NEW e,
           Routed(q, c, d), Routed(r, d, e)
    PROVE  Routed(q \o r, c, e)
<1> DEFINE w == q \o r
           m == Len(q)
           n == Len(r)
<1>1. /\ m \in Nat /\ n \in Nat /\ Len(w) = m + n
      /\ \A k \in 1..m : w[k] = q[k]
      /\ \A k \in (m + 1)..(m + n) : w[k] = r[k - m]
  OBVIOUS
<1>2. /\ \A k \in 1..m : q[k].byte # SELECT => q[k].to = At(q, c, k - 1)
      /\ \A k \in 1..n : r[k].byte # SELECT => r[k].to = At(r, d, k - 1)
      /\ At(q, c, m) = d /\ At(r, d, n) = e
  BY DEF Routed
<1> HIDE DEF w, m, n
<1>3. \A k \in 0..m : At(w, c, k) = At(q, c, k)
  <2> TAKE k \in 0..m
  <2>1. k # 0 => k \in 1..m
    BY <1>1
  <2> QED
    BY <1>1, <2>1 DEF At
<1>4. \A k \in 0..n : At(w, c, m + k) = At(r, d, k)
  <2> TAKE k \in 0..n
  <2>1. CASE k = 0
    <3>1. m \in 0..m /\ m + k = m
      BY <1>1, <2>1
    <3>2. At(r, d, k) = d
      BY <2>1 DEF At
    <3> QED
      BY <1>2, <1>3, <3>1, <3>2
  <2>2. CASE k # 0
    <3>1. m + k \in (m + 1)..(m + n) /\ (m + k) - m = k /\ m + k # 0
      BY <1>1, <2>2
    <3>2. w[m + k] = r[k]
      BY <1>1, <3>1
    <3> QED
      BY <2>2, <3>1, <3>2 DEF At
  <2> QED
    BY <2>1, <2>2
<1>5. ASSUME NEW k \in 1..(m + n), w[k].byte # SELECT
      PROVE  w[k].to = At(w, c, k - 1)
  <2>1. CASE k \in 1..m
    <3>1. k - 1 \in 0..m /\ w[k] = q[k]
      BY <1>1, <2>1
    <3>2. q[k].to = At(q, c, k - 1)
      BY <1>2, <1>5, <2>1, <3>1
    <3> QED
      BY <1>3, <3>1, <3>2
  <2>2. CASE k \notin 1..m
    <3> DEFINE j == k - m
    <3>1. k \in (m + 1)..(m + n) /\ j \in 1..n /\ j - 1 \in 0..n /\ m + (j - 1) = k - 1
      BY <1>1, <2>2
    <3>2. w[k] = r[j]
      BY <1>1, <3>1
    <3>3. r[j].to = At(r, d, j - 1)
      BY <1>2, <1>5, <3>1, <3>2
    <3>4. At(w, c, m + (j - 1)) = At(r, d, j - 1)
      BY <1>4, <3>1
    <3> QED
      BY <3>1, <3>2, <3>3, <3>4
  <2> QED
    BY <2>1, <2>2
<1>6. At(w, c, m + n) = e
  <2>1. n \in 0..n
    BY <1>1
  <2> QED
    BY <1>2, <1>4, <2>1
<1> QED
  BY <1>1, <1>5, <1>6 DEF Routed, w

\* No items, and one
LEMMA RoutedOne ==
    /\ \A c : Routed(<<>>, c, c)
    /\ \A c : \A x \in Item : (x.byte # SELECT => x.to = c) => Routed(<<x>>, c, x.to)
<1>1. \A c : Routed(<<>>, c, c)
  BY DEF Routed, At
<1>2. ASSUME NEW c, NEW x \in Item, x.byte # SELECT => x.to = c
      PROVE  Routed(<<x>>, c, x.to)
  <2>1. Len(<<x>>) = 1 /\ <<x>>[1] = x /\ 1..1 = {1}
    OBVIOUS
  <2>2. At(<<x>>, c, 1) = x.to /\ At(<<x>>, c, 1 - 1) = c
    BY <2>1 DEF At
  <2> QED
    BY <1>2, <2>1, <2>2 DEF Routed
<1> QED
  BY <1>1, <1>2

\* The items of data for stream i
Bytes(i, d) == [k \in 1..Len(d) |-> [to |-> i, byte |-> d[k]]]
Selected(i) == [to |-> i, byte |-> SELECT]

\* Their types
LEMMA BytesType ==
    ASSUME NEW i \in Byte \ {ESC}, NEW d \in Seq(Byte)
    PROVE  /\ Bytes(i, d) \in Seq(Item) /\ Len(Bytes(i, d)) = Len(d)
           /\ \A k \in 1..Len(d) : Bytes(i, d)[k] = [to |-> i, byte |-> d[k]]
           /\ Selected(i) \in Item /\ <<Selected(i)>> \in Seq(Item)
<1>1. \A b \in Byte : [to |-> i, byte |-> b] \in Item
  BY DEF Item
<1>2. Len(d) \in Nat /\ \A k \in 1..Len(d) : d[k] \in Byte
  OBVIOUS
<1>3. \A k \in 1..Len(d) : [to |-> i, byte |-> d[k]] \in Item
  BY <1>1, <1>2
<1>4. Bytes(i, d) \in Seq(Item) /\ Len(Bytes(i, d)) = Len(d)
  BY <1>2, <1>3 DEF Bytes
<1>5. Selected(i) \in Item
  BY DEF Selected, Item
<1>6. <<Selected(i)>> \in Seq(Item)
  BY <1>5
<1> QED
  BY <1>4, <1>5, <1>6 DEF Bytes

\* An item with a byte
LEMMA ByteItem ==
    ASSUME NEW i \in Byte \ {ESC}, NEW b \in Byte
    PROVE  LET x == [to |-> i, byte |-> b]
           IN  /\ x \in Item /\ x.byte # SELECT /\ x.to = i /\ x.byte = b
               /\ CodeOf[x] = Coded(b)
               /\ \A j : DataOf(j)[x] = IF j = i THEN <<b>> ELSE <<>>
<1> DEFINE x == [to |-> i, byte |-> b]
<1>1. x \in Item /\ x.byte # SELECT /\ x.to = i /\ x.byte = b
  BY ItemFacts DEF Item
<1> HIDE DEF x
<1>2. CodeOf[x] = Coded(b)
  BY <1>1 DEF CodeOf, Second, Coded
<1>3. \A j : DataOf(j)[x] = IF j = i THEN <<b>> ELSE <<>>
  BY <1>1 DEF DataOf
<1> QED
  BY <1>1, <1>2, <1>3 DEF x

\* An item that selects a stream
LEMMA SelectItem ==
    ASSUME NEW i \in Byte \ {ESC}
    PROVE  /\ CodeOf[Selected(i)] = <<ESC, i>>
           /\ \A j : DataOf(j)[Selected(i)] = <<>>
           /\ Selected(i).to = i /\ Selected(i).byte = SELECT
<1>1. Selected(i) \in Item /\ Selected(i).byte = SELECT /\ Selected(i).to = i
  BY DEF Selected, Item
<1> QED
  BY <1>1 DEF CodeOf, DataOf, Second

\* One more byte
LEMMA BytesAppend ==
    ASSUME NEW i \in Byte \ {ESC}, NEW d \in Seq(Byte), NEW b \in Byte
    PROVE  Bytes(i, Append(d, b)) = Bytes(i, d) \o <<[to |-> i, byte |-> b]>>
<1> DEFINE x == [to |-> i, byte |-> b]
           a == Append(d, b)
           s == Bytes(i, d)
           u == Bytes(i, a)
<1>1. x \in Item
  BY ByteItem
<1>2. a \in Seq(Byte) /\ Len(a) = Len(d) + 1 /\ Len(d) \in Nat
  OBVIOUS
<1>3. a[Len(d) + 1] = b /\ \A k \in 1..Len(d) : a[k] = d[k]
  OBVIOUS
<1>4. /\ s \in Seq(Item) /\ Len(s) = Len(d) /\ u \in Seq(Item) /\ Len(u) = Len(d) + 1
      /\ \A k \in 1..Len(d) : s[k] = [to |-> i, byte |-> d[k]]
      /\ \A k \in 1..(Len(d) + 1) : u[k] = [to |-> i, byte |-> a[k]]
  BY <1>2, BytesType
<1> HIDE DEF s, u, a
<1>5. u[Len(d) + 1] = x
  BY <1>2, <1>3, <1>4
<1>6. \A k \in 1..Len(d) : u[k] = s[k]
  <2>1. \A k \in 1..Len(d) : k \in 1..(Len(d) + 1)
    BY <1>2
  <2> QED
    BY <1>3, <1>4, <2>1, Zenon
<1> HIDE DEF x
<1>7. /\ Append(s, x) \in Seq(Item) /\ Len(Append(s, x)) = Len(d) + 1
      /\ Append(s, x)[Len(d) + 1] = x /\ \A k \in 1..Len(d) : Append(s, x)[k] = s[k]
  BY <1>1, <1>4
<1>8. \A k \in 1..(Len(d) + 1) : u[k] = Append(s, x)[k]
  BY <1>2, <1>5, <1>6, <1>7
<1>9. u = Append(s, x)
  BY <1>4, <1>7, <1>8, SeqEqual
<1>10. Append(s, x) = s \o <<x>>
  BY <1>1, <1>4, AppendIsConcat, Zenon
<1> QED
  BY <1>9, <1>10 DEF u, s, a, x

\* They carry the data, for stream i alone, escaped, with i selected all the time.
LEMMA BytesCarry ==
    ASSUME NEW i \in Byte \ {ESC}, NEW d \in Seq(Byte)
    PROVE  /\ Code(Bytes(i, d)) = EscapePayload(d)
           /\ \A j : Given(j, Bytes(i, d)) = IF j = i THEN d ELSE <<>>
           /\ Routed(Bytes(i, d), i, i)
<1> DEFINE s == Bytes(i, d)
<1>1. /\ s \in Seq(Item) /\ Len(s) = Len(d) /\ Len(d) \in Nat
      /\ \A k \in 1..Len(d) : s[k] = [to |-> i, byte |-> d[k]]
  BY BytesType
<1>2. \A k \in 1..Len(d) : d[k] \in Byte
  OBVIOUS
<1>3. DOMAIN s = 1..Len(d) /\ DOMAIN d = 1..Len(d)
  BY <1>1
<1>4. \A k \in 1..Len(d) : CodeOf[s[k]] = Coded(d[k]) /\ s[k].to = i
  <2> TAKE k \in 1..Len(d)
  <2> DEFINE b == d[k]
             x == [to |-> i, byte |-> b]
  <2>1. b \in Byte /\ s[k] = x
    BY <1>1, <1>2
  <2> HIDE DEF b
  <2>2. CodeOf[x] = Coded(b) /\ x.to = i
    BY <2>1, ByteItem
  <2> QED
    BY <2>1, <2>2, Zenon DEF b
<1>5. Code(s) = EscapePayload(d)
  <2>1. [k \in DOMAIN s |-> CodeOf[s[k]]] = CodedSeq(d)
    BY <1>3, <1>4, Zenon DEF CodedSeq
  <2>2. Code(s) = FlattenSeq(CodedSeq(d))
    BY <2>1, Zenon DEF Code, Spread, PartsOf
  <2> QED
    BY <2>2, EscapeIs
<1>6. Routed(s, i, i)
  <2>1. \A k \in 0..Len(d) : At(s, i, k) = i
    <3> TAKE k \in 0..Len(d)
    <3>1. k # 0 => k \in 1..Len(d)
      BY <1>1
    <3> QED
      BY <1>4, <3>1, Zenon DEF At
  <2>2. Len(d) \in 0..Len(d) /\ \A k \in 1..Len(d) : k - 1 \in 0..Len(d)
    BY <1>1
  <2> HIDE DEF s
  <2> QED
    BY <1>1, <1>4, <2>1, <2>2 DEF Routed
<1>7. ASSUME NEW j PROVE Given(j, s) = IF j = i THEN d ELSE <<>>
  <2> DEFINE T == {e \in Seq(Byte) : Given(j, Bytes(i, e)) = IF j = i THEN e ELSE <<>>}
  <2>1. <<>> \in T
    <3>1. Bytes(i, <<>>) = <<>> /\ <<>> \in Seq(Byte)
      BY DEF Bytes
    <3> QED
      BY <3>1, CodeEmpty
  <2>2. ASSUME NEW e \in Seq(Byte), NEW b \in Byte, e \in T PROVE Append(e, b) \in T
    <3> DEFINE x == [to |-> i, byte |-> b]
               a == Append(e, b)
    <3>1. x \in Item /\ DataOf(j)[x] = IF j = i THEN <<b>> ELSE <<>>
      BY ByteItem
    <3>2. a \in Seq(Byte) /\ a = e \o <<b>> /\ <<>> \o <<>> = <<>>
      OBVIOUS
    <3>3. Bytes(i, a) = Bytes(i, e) \o <<x>>
      BY BytesAppend
    <3> HIDE DEF x, a
    <3>4. Bytes(i, e) \in Seq(Item) /\ <<x>> \in Seq(Item)
      BY <3>1, BytesType
    <3>5. Given(j, Bytes(i, e) \o <<x>>) = Given(j, Bytes(i, e)) \o Given(j, <<x>>)
      BY <3>4, CodeConcat
    <3>6. Given(j, <<x>>) = DataOf(j)[x]
      BY <3>1, CodeOne
    <3>7. Given(j, a) = Given(j, a) /\ Given(j, Bytes(i, a)) = Given(j, Bytes(i, e)) \o DataOf(j)[x]
      BY <3>3, <3>5, <3>6, Zenon
    <3>8. Given(j, Bytes(i, e)) = IF j = i THEN e ELSE <<>>
      BY <2>2
    <3>9. a \in T
      BY <3>1, <3>2, <3>7, <3>8, Zenon
    <3> QED
      BY <3>9 DEF a
  <2> HIDE DEF T
  <2>3. Seq(Byte) \subseteq T
    BY <2>1, <2>2, SeqSetInduction
  <2> QED
    BY <2>3 DEF T
<1> QED
  BY <1>5, <1>6, <1>7

\* A data frame selects its stream, carries the payload and selects no stream.
FrameItems(i, d) == (<<Selected(i)>> \o Bytes(i, d)) \o <<Selected(0)>>

\* virtioso_encode_data
LEMMA EncodeDataIs ==
    ASSUME NEW i \in Byte \ {ESC}, NEW d \in Seq(Byte)
    PROVE  /\ FrameItems(i, d) \in Seq(Item)
           /\ EncodeData(i, d) = Code(FrameItems(i, d))
           /\ \A c : Routed(FrameItems(i, d), c, 0)
           /\ \A j : Given(j, FrameItems(i, d)) = IF j = i THEN d ELSE <<>>
<1> DEFINE a == <<Selected(i)>>
           b == Bytes(i, d)
           e == <<Selected(0)>>
<1>0. 0 \in Byte \ {ESC} /\ DEFAULT = 0
  BY ItemFacts DEF DEFAULT
<1>1. a \in Seq(Item) /\ b \in Seq(Item) /\ e \in Seq(Item) /\ Selected(i) \in Item /\ Selected(0) \in Item
  BY <1>0, BytesType
<1>2. Code(a) = <<ESC, i>> /\ Code(e) = <<ESC, DEFAULT>> /\ \A j : Given(j, a) = <<>> /\ Given(j, e) = <<>>
  <2>1. ASSUME NEW m \in Byte \ {ESC}, Selected(m) \in Item
        PROVE  Code(<<Selected(m)>>) = <<ESC, m>> /\ \A j : Given(j, <<Selected(m)>>) = <<>>
    <3> DEFINE x == Selected(m)
    <3>1. x \in Item /\ CodeOf[x] = <<ESC, m>> /\ \A j : DataOf(j)[x] = <<>>
      BY <2>1, SelectItem
    <3> HIDE DEF x
    <3>2. Code(<<x>>) = CodeOf[x] /\ \A j : Given(j, <<x>>) = DataOf(j)[x]
      BY <3>1, CodeOne
    <3> QED
      BY <3>1, <3>2, Zenon DEF x
  <2> QED
    BY <1>0, <1>1, <2>1
<1>3. /\ Code(b) = EscapePayload(d) /\ Routed(b, i, i)
      /\ \A j : Given(j, b) = IF j = i THEN d ELSE <<>>
  BY BytesCarry
<1>4. (\A c : Routed(a, c, i)) /\ (\A c : Routed(e, c, 0))
  BY <1>0, <1>1, SelectItem, RoutedOne
<1> HIDE DEF a, b, e
<1>5. a \o b \in Seq(Item)
  BY <1>1
<1>6. (a \o b) \o e \in Seq(Item)
  BY <1>1, <1>5
<1>7. /\ Code((a \o b) \o e) = (Code(a) \o Code(b)) \o Code(e)
      /\ \A j : Given(j, (a \o b) \o e) = (Given(j, a) \o Given(j, b)) \o Given(j, e)
  <2>1. /\ Code(a \o b) = Code(a) \o Code(b)
        /\ \A j : Given(j, a \o b) = Given(j, a) \o Given(j, b)
    <3>1. a \in Seq(Item) /\ b \in Seq(Item)
      BY <1>1
    <3> QED
      BY <3>1, CodeConcat, Zenon
  <2> DEFINE ab == a \o b
  <2>2. ab \in Seq(Item)
    BY <1>5
  <2> HIDE DEF ab
  <2>3. /\ Code(ab \o e) = Code(ab) \o Code(e)
        /\ \A j : Given(j, ab \o e) = Given(j, ab) \o Given(j, e)
    BY <1>1, <2>2, CodeConcat
  <2> QED
    BY <2>1, <2>3, Zenon DEF ab
<1>8. \A c : Routed((a \o b) \o e, c, 0)
  BY <1>1, <1>3, <1>4, <1>5, RoutedConcat
<1>9. EncodeData(i, d) = Code((a \o b) \o e)
  BY <1>2, <1>3, <1>7, Zenon DEF EncodeData
<1>10. \A s \in Seq(Byte) : (<<>> \o s) \o <<>> = s
  OBVIOUS
<1>11. <<>> \in Seq(Byte)
  OBVIOUS
<1>12. \A j : Given(j, (a \o b) \o e) = IF j = i THEN d ELSE <<>>
  BY <1>2, <1>3, <1>7, <1>10, <1>11, ZenonT(30)
<1> QED
  BY <1>6, <1>8, <1>9, <1>12 DEF FrameItems, a, b, e

-----------------------------------------------------------------------------
(* A receiver of the link reads a byte.                                    *)

\* It has read the first byte of an item with an escape.
LEMMA ReadEscape ==
    ASSUME NEW q \in Seq(Item), NEW w \in Seq(Byte), w # <<>>, NEW c,
           Pending(q, w, c, FALSE), Head(w) = ESC
    PROVE  Pending(q, Tail(w), c, TRUE)
<1>1. Routed(q, c, 0) /\ w = Code(q)
  BY DEF Pending
<1>2. q # <<>>
  BY <1>1, CodeEmpty
<1> DEFINE x == Head(q)
           e == Second(x)
           r == Code(Tail(q))
<1>3. x \in Item /\ Tail(q) \in Seq(Item) /\ w = CodeOf[x] \o r
  BY <1>1, <1>2, CodeFirst
<1>4. e \in Byte /\ r \in Seq(Byte) /\ ESC \in Byte
  BY <1>3, ItemFacts, CodeType
<1>5. CodeOf[x] = IF x.byte \in {SELECT, ESC} THEN <<ESC, e>> ELSE <<x.byte>>
  BY <1>3 DEF CodeOf
<1>6. x.byte \notin {SELECT, ESC} => x.byte \in Byte
  BY <1>3, ItemFacts
<1> HIDE DEF e, r
<1>7. x.byte \in {SELECT, ESC}
  <2> SUFFICES ASSUME x.byte \notin {SELECT, ESC} PROVE FALSE
    OBVIOUS
  <2>1. w = <<x.byte>> \o r
    BY <1>3, <1>5
  <2>2. Head(w) = x.byte
    BY <1>4, <1>6, <2>1, FirstOf
  <2> QED
    BY <2>2
<1> DEFINE v == <<e>> \o r
<1>8. v \in Seq(Byte) /\ <<ESC, e>> \o r = <<ESC>> \o v
  BY <1>4, TwoInTurn, OneInTurn
<1> HIDE DEF v
<1>9. w = <<ESC>> \o v
  BY <1>3, <1>5, <1>7, <1>8
<1>10. Tail(w) = v
  BY <1>4, <1>8, <1>9, FirstOf
<1> QED
  BY <1>1, <1>2, <1>7, <1>10 DEF Pending, v, e, r

\* The items q bring b to stream c, and what t brings.
Brings(q, t, c, b) == \A s : Given(s, q) = (IF s = c THEN <<b>> ELSE <<>>) \o Given(s, t)

\* It has read a byte for the stream that is selected.
LEMMA ReadData ==
    ASSUME NEW q \in Seq(Item), NEW w \in Seq(Byte), w # <<>>, NEW c, NEW esc \in BOOLEAN,
           Pending(q, w, c, esc), esc <=> Head(w) = ESC
    PROVE  /\ Tail(q) \in Seq(Item) /\ Pending(Tail(q), Tail(w), c, FALSE)
           /\ Brings(q, Tail(q), c, Head(w))
<1> DEFINE x == Head(q)
           r == Code(Tail(q))
<1>1. Routed(q, c, 0) /\ q # <<>>
  <2>1. ~esc => w = Code(q)
    BY DEF Pending
  <2> QED
    BY <2>1, CodeEmpty DEF Pending
<1>2. /\ x \in Item /\ Tail(q) \in Seq(Item) /\ Code(q) = CodeOf[x] \o r
      /\ \A s : Given(s, q) = DataOf(s)[x] \o Given(s, Tail(q))
  BY <1>1, CodeFirst
<1>3. r \in Seq(Byte) /\ ESC \in Byte /\ (x.byte # SELECT => x.byte \in Byte) /\ x.to # ESC
  BY <1>2, ItemFacts, CodeType
<1> HIDE DEF r
<1>4. x.byte # SELECT /\ w = <<x.byte>> \o r
  <2>1. CASE esc
    <3>1. x.byte \in {SELECT, ESC} /\ w = <<Second(x)>> \o r
      BY <2>1 DEF Pending, r
    <3>2. Second(x) \in Byte
      BY <1>2, ItemFacts
    <3>3. Head(w) = Second(x)
      BY <1>3, <3>1, <3>2, FirstOf
    <3> QED
      BY <1>3, <2>1, <3>1, <3>3 DEF Second
  <2>2. CASE ~esc
    <3>1. w = CodeOf[x] \o r
      BY <1>2, <2>2 DEF Pending
    <3>2. CodeOf[x] = IF x.byte \in {SELECT, ESC} THEN <<ESC, Second(x)>> ELSE <<x.byte>>
      BY <1>2 DEF CodeOf
    <3>3. x.byte \notin {SELECT, ESC}
      <4> DEFINE e == Second(x)
      <4>1. e \in Byte
        BY <1>2, ItemFacts
      <4> HIDE DEF e
      <4> DEFINE v == <<e>> \o r
      <4>2. v \in Seq(Byte) /\ <<ESC, e>> \o r = <<ESC>> \o v
        BY <1>3, <4>1, TwoInTurn, OneInTurn
      <4> HIDE DEF v
      <4>3. x.byte \in {SELECT, ESC} => w = <<ESC>> \o v
        BY <3>1, <3>2, <4>2 DEF e
      <4> QED
        BY <1>3, <2>2, <4>2, <4>3, FirstOf
    <3> QED
      BY <3>1, <3>2, <3>3
  <2> QED
    BY <2>1, <2>2
<1>5. Head(w) = x.byte /\ Tail(w) = r
  BY <1>3, <1>4, FirstOf
<1>6. x.to = c /\ Routed(Tail(q), c, 0)
  BY <1>1, <1>4, RoutedTail
<1>7. Pending(Tail(q), Tail(w), c, FALSE)
  BY <1>5, <1>6 DEF Pending, r
<1>8. \A s : DataOf(s)[x] = IF s = c THEN <<Head(w)>> ELSE <<>>
  BY <1>2, <1>4, <1>5, <1>6 DEF DataOf
<1> QED
  BY <1>2, <1>7, <1>8, Zenon DEF Brings

\* It has read which stream is selected.
LEMMA ReadSelect ==
    ASSUME NEW q \in Seq(Item), NEW w \in Seq(Byte), w # <<>>, NEW c,
           Pending(q, w, c, TRUE), Head(w) # ESC
    PROVE  /\ q # <<>> /\ Head(q) \in Item /\ Tail(q) \in Seq(Item)
           /\ Head(q).to = Head(w) /\ Pending(Tail(q), Tail(w), Head(w), FALSE)
           /\ \A s : Given(s, q) = Given(s, Tail(q))
<1> DEFINE x == Head(q)
           r == Code(Tail(q))
<1>1. Routed(q, c, 0) /\ q # <<>> /\ x.byte \in {SELECT, ESC} /\ w = <<Second(x)>> \o r
  BY DEF Pending
<1>2. /\ x \in Item /\ Tail(q) \in Seq(Item)
      /\ \A s : Given(s, q) = DataOf(s)[x] \o Given(s, Tail(q))
  BY <1>1, CodeFirst
<1>3. /\ r \in Seq(Byte) /\ Second(x) \in Byte /\ \A s : Given(s, Tail(q)) \in Seq(Byte)
  BY <1>2, ItemFacts, CodeType
<1> HIDE DEF r
<1>4. Head(w) = Second(x) /\ Tail(w) = r
  BY <1>1, <1>3, FirstOf
<1>5. x.byte = SELECT /\ Head(w) = x.to
  BY <1>1, <1>4 DEF Second
<1>6. Routed(Tail(q), x.to, 0)
  BY <1>1, RoutedTail
<1>7. Pending(Tail(q), Tail(w), x.to, FALSE)
  BY <1>4, <1>6 DEF Pending, r
<1>8. ASSUME NEW s PROVE Given(s, q) = Given(s, Tail(q))
  <2>1. DataOf(s)[x] = <<>>
    BY <1>2, <1>5 DEF DataOf
  <2>2. \A u \in Seq(Byte) : <<>> \o u = u
    OBVIOUS
  <2> QED
    BY <1>2, <1>3, <2>1, <2>2, Zenon
<1> QED
  BY <1>1, <1>2, <1>5, <1>7, <1>8

\* More items are put on the link.
LEMMA PendingMore ==
    ASSUME NEW q \in Seq(Item), NEW r \in Seq(Item), NEW w \in Seq(Byte), NEW c, NEW esc \in BOOLEAN,
           Pending(q, w, c, esc), Routed(r, 0, 0)
    PROVE  q \o r \in Seq(Item) /\ Pending(q \o r, w \o Code(r), c, esc)
<1>1. Routed(q, c, 0)
  BY DEF Pending
<1>2. q \o r \in Seq(Item) /\ Routed(q \o r, c, 0)
  BY <1>1, RoutedConcat
<1>3. Code(q \o r) = Code(q) \o Code(r) /\ Code(r) \in Seq(Byte)
  BY CodeConcat, CodeType
<1>4. CASE ~esc
  BY <1>2, <1>3, <1>4 DEF Pending
<1>5. CASE esc
  <2> DEFINE t == Tail(q)
             h == Head(q)
             e == Second(h)
  <2>1. q # <<>> /\ h.byte \in {SELECT, ESC} /\ w = <<e>> \o Code(t)
    BY <1>5 DEF Pending
  <2>2. h \in Item /\ t \in Seq(Item) /\ q = <<h>> \o t
    BY <2>1, HeadAndTail
  <2>3. e \in Byte
    BY <2>2, ItemFacts
  <2>4. q \o r # <<>> /\ Head(q \o r) = h /\ Tail(q \o r) = t \o r
    <3>1. Len(q) \in Nat /\ Len(q) > 0
      BY <2>1, EmptySeq
    <3>2. q \o r # <<>> /\ Head(q \o r) = h
      BY <3>1
    <3>3. Tail(q \o r) = t \o r
      BY <3>1
    <3> QED
      BY <3>2, <3>3
  <2>5. Code(t \o r) = Code(t) \o Code(r) /\ Code(t) \in Seq(Byte)
    BY <2>2, CodeConcat
  <2> DEFINE E == <<e>>
             C == Code(t)
             D == Code(r)
  <2>6. E \in Seq(Byte) /\ C \in Seq(Byte) /\ D \in Seq(Byte)
    BY <1>3, <2>3, <2>5
  <2> HIDE DEF E, C, D
  <2>7. (E \o C) \o D = E \o (C \o D)
    <3>1. Regrouped(E, C, D)
      BY <2>6, Regroup, Zenon
    <3> QED
      BY <3>1, Zenon DEF Regrouped
  <2>8. w \o Code(r) = <<e>> \o Code(t \o r)
    BY <2>1, <2>5, <2>7, Zenon DEF E, C, D
  <2> HIDE DEF t, h, e
  <2>9. Head(q \o r) = h /\ Tail(q \o r) = t \o r /\ Second(h) = e
    BY <2>4 DEF e
  <2> QED
    BY <1>2, <1>5, <2>1, <2>4, <2>8, <2>9, Zenon DEF Pending
<1> QED
  BY <1>4, <1>5, <1>2

-----------------------------------------------------------------------------
(* The way down: what was typed, from the PTYs to the rings.               *)

\* No write was short, and nobody used the raw UART.
Clean == ~cut /\ (EnableRawWrite => \A i \in Physical : keyed[i] = <<>>)

\* What was typed into the PTY of stream s and is not on the link
Waiting(s) ==
    IF StreamPtys(s) = {} THEN <<>>
    ELSE LET p == CHOOSE p \in StreamPtys(s) : TRUE IN buf[p] \o typed[p]

\* What the interrupt thread has put in the ring of stream s
InRing(s) == stored[s] \o (IF s \in storing THEN <<ring[s].buf[ring[s].tail]>> ELSE <<>>)

\* What the receiver of stream s has got or may still get, if the link carries q
Destined(q, s) == (InRing(s) \o Given(s, q)) \o Waiting(s)

\* The streams the host has, and none
Addressees == {0} \cup {tags[i].value : i \in Registered}
ForKnown(q) == \A k \in 1..Len(q) : q[k].to \in Addressees

\* The link carries the items q to the Mux, which has selected c.
Conveys(q, c) ==
    /\ Pending(q, uart_rx \o tty, c, rx_escape)
    /\ ForKnown(q) /\ c \in Addressees
    /\ rx_stream = IF c \in DemuxSinks THEN c ELSE -1
    /\ \A s \in DemuxSinks : IsSubSeqOf(Destined(q, s), TypedFor(s))

\* The PTY threads: only what was typed is read, and only what may be written is
\* kept.
ThreadsInv ==
    /\ keyed \in [PtyIdx -> Seq(Byte)]
    /\ \A i \in PtyIdx : keyed[i] # <<>> => i \in opened
    /\ \A i \in PtyIdx : keyed[i] = <<>> => buf[i] = <<>> /\ typed[i] = <<>>
    /\ \A i \in PtyIdx : buf[i] # <<>> => /\ i \in threads \cap Registered
                                          /\ i \in Physical => EnableRawWrite
    /\ greeting \in Seq(Byte \ {ESC})

OnLink == Clean => \E q \in Seq(Item), c \in Byte \ {ESC} : Conveys(q, c)

DownInv == ThreadsInv /\ OnLink

-----------------------------------------------------------------------------
(* The streams and their PTYs.                                             *)

\* What is typed for a stream goes through its PTY.
LEMMA PtyOf ==
    ASSUME TableInv, NEW s, NEW p \in StreamPtys(s)
    PROVE  TypedFor(s) = keyed[p] /\ Waiting(s) = buf[p] \o typed[p]
BY OnePty, Zenon DEF TypedFor, Waiting

\* The same after a step
LEMMA PtyOfThen ==
    ASSUME TableInv', NEW s, NEW p \in StreamPtys(s)'
    PROVE  TypedFor(s)' = keyed'[p] /\ Waiting(s)' = buf'[p] \o typed'[p]
BY OnePtyThen, Zenon DEF TypedFor, Waiting

\* No stream, nothing typed
LEMMA NoPty ==
    ASSUME NEW s
    PROVE  /\ StreamPtys(s) = {} => TypedFor(s) = <<>> /\ Waiting(s) = <<>>
           /\ StreamPtys(s)' = {} => TypedFor(s)' = <<>> /\ Waiting(s)' = <<>>
BY DEF TypedFor, Waiting

\* A step that concerns another PTY
LEMMA OtherPty ==
    ASSUME TableInv, TableInv', UNCHANGED table, NEW i, NEW s, i \notin StreamPtys(s),
           \A p \in PtyIdx : p # i => keyed'[p] = keyed[p] /\ buf'[p] = buf[p] /\ typed'[p] = typed[p]
    PROVE  TypedFor(s)' = TypedFor(s) /\ Waiting(s)' = Waiting(s)
<1>1. StreamPtys(s)' = StreamPtys(s)
  BY SamePtys
<1>2. CASE StreamPtys(s) = {}
  BY <1>1, <1>2, NoPty
<1>3. ASSUME NEW p \in StreamPtys(s)
      PROVE  TypedFor(s)' = TypedFor(s) /\ Waiting(s)' = Waiting(s)
  <2>1. p \in PtyIdx /\ p # i
    BY StreamPtysAre DEF TableInv
  <2>2. TypedFor(s) = keyed[p] /\ Waiting(s) = buf[p] \o typed[p]
    BY PtyOf
  <2>3. TypedFor(s)' = keyed'[p] /\ Waiting(s)' = buf'[p] \o typed'[p]
    BY <1>1, PtyOfThen
  <2> QED
    BY <2>1, <2>2, <2>3
<1> QED
  BY <1>2, <1>3

\* Their types
LEMMA WaitingType ==
    ASSUME TableInv, HDTypeOK, ThreadsInv, NEW s
    PROVE  TypedFor(s) \in Seq(Byte) /\ Waiting(s) \in Seq(Byte)
<1>1. CASE StreamPtys(s) = {}
  <2>1. <<>> \in Seq(Byte)
    OBVIOUS
  <2> QED
    BY <1>1, <2>1, NoPty
<1>2. ASSUME NEW p \in StreamPtys(s) PROVE TypedFor(s) \in Seq(Byte) /\ Waiting(s) \in Seq(Byte)
  <2>1. p \in PtyIdx
    BY StreamPtysAre DEF TableInv
  <2>2. keyed[p] \in Seq(Byte) /\ buf[p] \in Seq(Byte) /\ typed[p] \in Seq(Byte)
    BY <2>1 DEF HDTypeOK, ThreadsInv
  <2>3. buf[p] \o typed[p] \in Seq(Byte)
    BY <2>2
  <2> QED
    BY <2>2, <2>3, PtyOf
<1> QED
  BY <1>1, <1>2

\* And of what is in a ring
LEMMA InRingType ==
    ASSUME RingsType, NEW s \in DemuxSinks
    PROVE  InRing(s) \in Seq(Byte) /\ stored[s] \in Seq(Byte)
<1>1. stored[s] \in Seq(Byte) /\ ring[s] \in Ring
  BY DEF RingsType
<1>2. ring[s].buf[ring[s].tail] \in Byte
  BY <1>1, RingFacts
<1> DEFINE b == ring[s].buf[ring[s].tail]
           e == IF s \in storing THEN <<b>> ELSE <<>>
<1> HIDE DEF b
<1>3. b \in Byte
  BY <1>2 DEF b
<1>4. e \in Seq(Byte)
  BY <1>3
<1> HIDE DEF e
<1>5. stored[s] \o e \in Seq(Byte)
  BY <1>1, <1>4
<1> QED
  BY <1>1, <1>5 DEF InRing, e, b

-----------------------------------------------------------------------------
(* Steps on the way.                                                       *)

\* A step that touches neither the PTYs nor what the interrupt thread has read
LEMMA DownUnchanged ==
    ASSUME DownInv, UNCHANGED <<table, typed, buf, tty, greeting, cut, keyed>>,
           UNCHANGED <<rx_stream, rx_escape, uart_rx>>,
           \A s \in DemuxSinks : InRing(s)' = InRing(s)
    PROVE  DownInv'
<1>1. ThreadsInv'
  BY DEF DownInv, ThreadsInv, table, Registered
<1>2. ASSUME Clean' PROVE \E q \in Seq(Item), c \in Byte \ {ESC} : Conveys(q, c)'
  <2>1. Clean
    BY <1>2 DEF Clean
  <2>2. PICK q \in Seq(Item), c \in Byte \ {ESC} : Conveys(q, c)
    BY <2>1 DEF DownInv, OnLink
  <2>3. ASSUME NEW s \in DemuxSinks PROVE TypedFor(s)' = TypedFor(s) /\ Destined(q, s)' = Destined(q, s)
    <3>1. StreamPtys(s)' = StreamPtys(s)
      BY SamePtys
    <3>2. TypedFor(s)' = TypedFor(s) /\ Waiting(s)' = Waiting(s)
      BY <3>1 DEF TypedFor, Waiting
    <3>3. InRing(s)' = InRing(s)
      OBVIOUS
    <3> QED
      BY <3>2, <3>3, Zenon DEF Destined
  <2>4. Addressees' = Addressees /\ (ForKnown(q)' <=> ForKnown(q))
    BY DEF Addressees, ForKnown, table, Registered
  <2>5. Pending(q, uart_rx \o tty, c, rx_escape)'
    BY <2>2 DEF Conveys
  <2>6. Conveys(q, c)'
    BY <2>2, <2>3, <2>4, <2>5 DEF Conveys
  <2> QED
    BY <2>6
<1> QED
  BY <1>1, <1>2 DEF DownInv, OnLink

\* The host has read a byte: its table may have grown.
LEMMA HostReceivesDown ==
    ASSUME LInv, LInv', DownInv, HostReceives
    PROVE  DownInv'
<1>1. /\ Feed(Head(uart_tx)) /\ uart_tx # <<>>
      /\ UNCHANGED <<downlinkThread, receivers, uart_rx, hdvars, history>>
  BY DEF HostReceives
<1>2. uart_tx \in Seq(Byte) /\ DemuxInv /\ TableInv /\ TableInv' /\ TypeOK
  BY DEF LInv, CMTypeOK, IInv, DemuxInv
<1>3. Head(uart_tx) \in Byte
  BY <1>1, <1>2, HeadAndTail
<1>4. TableGrows /\ alive /\ AllRegistered
  BY <1>1, <1>2, <1>3, FeedStep DEF TableStep, Feed, DemuxInv
<1>5. /\ UNCHANGED <<typed, buf, tty, greeting, cut, keyed, rx_stream, rx_escape, storing,
                     ring, stored>>
  BY <1>1 DEF hdvars, history, downlinkThread, receivers
<1>6. Registered \subseteq Registered' /\ Registered' \subseteq PtyIdx /\ Registered \subseteq PtyIdx
  <2>1. /\ num_proc \in BuiltinCount..MaxPty /\ num_proc' \in BuiltinCount..MaxPty
        /\ num_proc' >= num_proc /\ MaxPty \in Nat
    BY <1>2, <1>4, MaxPtyAssumption DEF TableInv, TableType, TableGrows
  <2>2. ASSUME NEW k \in Registered PROVE k \in Registered' /\ k \in PtyIdx
    <3>1. num_proc \in Nat /\ num_proc' \in Nat /\ num_proc <= MaxPty
      BY <2>1 DEF BuiltinCount
    <3> QED
      BY <2>1, <3>1, LargerInterval DEF Registered, PtyIdx
  <2>3. ASSUME NEW k \in Registered' PROVE k \in PtyIdx
    <3>1. num_proc' \in Nat /\ num_proc' <= MaxPty
      BY <2>1 DEF BuiltinCount
    <3> QED
      BY <2>1, <3>1, LargerInterval DEF Registered, PtyIdx
  <2> QED
    BY <2>2, <2>3
<1>7. opened \subseteq Registered /\ opened \subseteq opened' /\ threads \subseteq threads'
  BY <1>4 DEF AllRegistered, TableGrows
<1>8. ThreadsInv'
  BY <1>5, <1>6, <1>7 DEF DownInv, ThreadsInv
<1>9. ASSUME Clean' PROVE \E q \in Seq(Item), c \in Byte \ {ESC} : Conveys(q, c)'
  <2>1. Clean
    BY <1>5, <1>9 DEF Clean
  <2>2. PICK q \in Seq(Item), c \in Byte \ {ESC} : Conveys(q, c)
    BY <2>1 DEF DownInv, OnLink
  <2>3. Addressees \subseteq Addressees'
    BY <1>4, <1>6 DEF Addressees, TableGrows
  <2>4. ASSUME NEW s \in DemuxSinks PROVE TypedFor(s)' = TypedFor(s) /\ Waiting(s)' = Waiting(s)
    <3>1. CASE StreamPtys(s)' = {}
      <4>1. StreamPtys(s) = {}
        BY <1>4, <1>6, <3>1 DEF StreamPtys, TableGrows
      <4> QED
        BY <3>1, <4>1, NoPty
    <3>2. ASSUME NEW p \in StreamPtys(s)'
          PROVE  TypedFor(s)' = TypedFor(s) /\ Waiting(s)' = Waiting(s)
      <4>1. TypedFor(s)' = keyed[p] /\ Waiting(s)' = buf[p] \o typed[p]
        BY <1>2, <1>5, <3>2, PtyOfThen
      <4>2. p \in Registered' /\ p >= BuiltinCount /\ tags'[p].value = s /\ p \in PtyIdx
        BY <1>6, <3>2 DEF StreamPtys
      <4>3. CASE p \in Registered
        <5>1. p \in StreamPtys(s)
          BY <1>4, <4>2, <4>3 DEF StreamPtys, TableGrows
        <5> QED
          BY <1>2, <4>1, <5>1, PtyOf
      <4>4. CASE p \notin Registered
        <5>1. p \notin opened
          BY <1>7, <4>4
        <5>2. keyed[p] = <<>> /\ buf[p] = <<>> /\ typed[p] = <<>>
          BY <4>2, <5>1 DEF DownInv, ThreadsInv
        <5>3. StreamPtys(s) = {}
          <6> SUFFICES ASSUME NEW r \in StreamPtys(s) PROVE FALSE
            OBVIOUS
          <6>1. r \in Registered /\ r >= BuiltinCount /\ tags[r].value = s
            BY DEF StreamPtys
          <6>2. r \in Registered' /\ tags'[r].value = s /\ r # p
            BY <1>4, <1>6, <4>4, <6>1 DEF TableGrows
          <6> QED
            BY <1>2, <4>2, <6>1, <6>2 DEF TableInv, DistinctStreamIds
        <5>4. <<>> \o <<>> = <<>>
          OBVIOUS
        <5> QED
          BY <4>1, <5>2, <5>3, <5>4, NoPty
      <4> QED
        BY <4>3, <4>4
    <3> QED
      BY <3>1, <3>2
  <2>5. ASSUME NEW s \in DemuxSinks PROVE Destined(q, s)' = Destined(q, s)
    <3>1. InRing(s)' = InRing(s)
      BY <1>5 DEF InRing
    <3> QED
      BY <2>4, <3>1, Zenon DEF Destined
  <2>6. ForKnown(q)' /\ c \in Addressees'
    BY <2>2, <2>3 DEF Conveys, ForKnown
  <2>7. Pending(q, uart_rx \o tty, c, rx_escape)'
    BY <1>1, <1>5, <2>2 DEF Conveys
  <2>8. Conveys(q, c)'
    BY <1>5, <2>2, <2>4, <2>5, <2>6, <2>7 DEF Conveys
  <2> QED
    BY <2>8
<1> QED
  BY <1>8, <1>9 DEF DownInv, OnLink

\* A user types.
LEMMA UserTypesDown ==
    ASSUME LInv, LInv', DownInv, NEW i \in TypeInto, NEW b \in TypeBytes, UserTypes(i, b)
    PROVE  DownInv'
<1>1. /\ i \in opened /\ typed' = [typed EXCEPT ![i] = Append(@, b)]
      /\ keyed' = [keyed EXCEPT ![i] = Append(@, b)]
      /\ UNCHANGED <<vars, buf, tty, greeting, cut, gsvars>>
  BY DEF UserTypes, Type
<1>2. i \in PtyIdx /\ b \in Byte
  BY LinkAssumption
<1>3. UNCHANGED table /\ UNCHANGED <<rx_stream, rx_escape, uart_rx, storing, ring, stored>>
  BY <1>1 DEF vars, gsvars, cmvars, downlinkThread, receivers
<1>4. TableInv /\ TableInv' /\ HDTypeOK /\ ThreadsInv /\ RingsType
  BY MuxParts DEF LInv, IInv, DemuxInv, DownInv, RingsInv
<1>5. /\ typed \in [PtyIdx -> Seq(Byte)] /\ keyed \in [PtyIdx -> Seq(Byte)]
      /\ buf \in [PtyIdx -> Seq(Byte)]
  BY <1>4 DEF HDTypeOK, ThreadsInv
<1>6. /\ Append(typed[i], b) \in Seq(Byte) /\ Append(keyed[i], b) \in Seq(Byte)
      /\ Append(keyed[i], b) # <<>>
  <2>1. typed[i] \in Seq(Byte) /\ keyed[i] \in Seq(Byte)
    BY <1>2, <1>5
  <2> QED
    BY <1>2, <2>1
<1>7. /\ keyed' \in [PtyIdx -> Seq(Byte)]
      /\ keyed'[i] = Append(keyed[i], b) /\ typed'[i] = Append(typed[i], b)
      /\ \A p \in PtyIdx : p # i => keyed'[p] = keyed[p] /\ typed'[p] = typed[p] /\ buf'[p] = buf[p]
  BY <1>1, <1>2, <1>5, <1>6
<1>8. ThreadsInv'
  <2>1. UNCHANGED <<opened, threads, buf, greeting>> /\ Registered' = Registered
    BY <1>1, <1>3 DEF table, Registered
  <2>2. \A p \in PtyIdx : keyed'[p] = <<>> => buf'[p] = <<>> /\ typed'[p] = <<>>
    BY <1>4, <1>6, <1>7 DEF ThreadsInv
  <2>3. \A p \in PtyIdx : keyed'[p] # <<>> => p \in opened'
    BY <1>1, <1>4, <1>7, <2>1 DEF ThreadsInv
  <2> QED
    BY <1>4, <1>7, <2>1, <2>2, <2>3 DEF ThreadsInv
<1>9. ASSUME Clean' PROVE \E q \in Seq(Item), c \in Byte \ {ESC} : Conveys(q, c)'
  <2>1. Clean
    <3>1. Physical \subseteq PtyIdx
      BY MaxPtyAssumption DEF Physical, RAW_CCPLEX, PHYSICAL_UART_DEFAULT, PtyIdx
    <3>2. \A p \in Physical : keyed'[p] = <<>> => keyed[p] = <<>>
      BY <1>6, <1>7, <3>1
    <3> QED
      BY <1>1, <1>9, <3>2 DEF Clean
  <2>2. PICK q \in Seq(Item), c \in Byte \ {ESC} : Conveys(q, c)
    BY <2>1 DEF DownInv, OnLink
  <2>3. Addressees' = Addressees /\ (ForKnown(q)' <=> ForKnown(q))
    BY <1>3 DEF Addressees, ForKnown, table, Registered
  <2>4. ASSUME NEW s \in DemuxSinks PROVE IsSubSeqOf(Destined(q, s)', TypedFor(s)')
    <3>1. InRing(s)' = InRing(s)
      BY <1>3 DEF InRing
    <3>2. IsSubSeqOf(Destined(q, s), TypedFor(s))
      BY <2>2 DEF Conveys
    <3>3. CASE i \notin StreamPtys(s)
      <4>1. TypedFor(s)' = TypedFor(s) /\ Waiting(s)' = Waiting(s)
        BY <1>3, <1>4, <1>7, <3>3, OtherPty
      <4>2. Destined(q, s)' = Destined(q, s)
        BY <3>1, <4>1, Zenon DEF Destined
      <4> QED
        BY <3>2, <4>1, <4>2
    <3>4. CASE i \in StreamPtys(s)
      <4>1. TypedFor(s) = keyed[i] /\ Waiting(s) = buf[i] \o typed[i]
        BY <1>4, <3>4, PtyOf
      <4>2. i \in StreamPtys(s)'
        BY <1>3, <3>4, SamePtys
      <4>3. TypedFor(s)' = Append(keyed[i], b) /\ Waiting(s)' = buf[i] \o Append(typed[i], b)
        <5>1. TypedFor(s)' = keyed'[i] /\ Waiting(s)' = buf'[i] \o typed'[i]
          BY <1>4, <4>2, PtyOfThen, Zenon
        <5> QED
          BY <1>1, <1>7, <5>1
      <4> DEFINE h == InRing(s) \o Given(s, q)
                 u == buf[i]
                 v == typed[i]
                 k == keyed[i]
                 e == <<b>>
      <4>4. /\ InRing(s) \in Seq(Byte) /\ Given(s, q) \in Seq(Byte)
            /\ u \in Seq(Byte) /\ v \in Seq(Byte) /\ k \in Seq(Byte) /\ e \in Seq(Byte)
        BY <1>2, <1>4, <1>5, InRingType, CodeType
      <4>5. h \in Seq(Byte)
        BY <4>4, ByteConcat, Zenon
      <4>6. Append(v, b) = v \o e /\ Append(k, b) = k \o e
        BY <1>2, <4>4, AppendIsConcat, Zenon
      <4>7. Destined(q, s) = h \o (u \o v) /\ Destined(q, s)' = h \o (u \o (v \o e))
        BY <3>1, <4>1, <4>3, <4>6, Zenon DEF Destined
      <4> HIDE DEF h, u, v, k, e
      <4>8. u \o v \in Seq(Byte) /\ u \o (v \o e) = (u \o v) \o e
        <5>1. Joins(u, v, e)
          BY <4>4, ByteJoins
        <5> QED
          BY <5>1, Zenon DEF Joins
      <4>9. h \o (u \o v) \in Seq(Byte) /\ h \o ((u \o v) \o e) = (h \o (u \o v)) \o e
        <5>1. Joins(h, u \o v, e)
          BY <4>4, <4>5, <4>8, ByteJoins
        <5> QED
          BY <5>1, Zenon DEF Joins
      <4>10. IsSubSeqOf((h \o (u \o v)) \o e, k \o e)
        <5>1. IsSubSeqOf(h \o (u \o v), k)
          BY <3>2, <4>1, <4>7 DEF k
        <5> QED
          BY <4>4, <4>9, <5>1, SubSeqOfConcat
      <4>11. TypedFor(s)' = k \o e /\ Destined(q, s)' = (h \o (u \o v)) \o e
        BY <4>3, <4>6, <4>7, <4>8, <4>9, Zenon DEF k
      <4> QED
        BY <4>10, <4>11
    <3> QED
      BY <3>3, <3>4
  <2>5. Pending(q, uart_rx \o tty, c, rx_escape)'
    BY <1>1, <1>3, <2>2 DEF Conveys
  <2>6. Conveys(q, c)'
    BY <1>3, <2>2, <2>3, <2>4, <2>5 DEF Conveys
  <2> QED
    BY <2>6
<1> QED
  BY <1>8, <1>9 DEF DownInv, OnLink

-----------------------------------------------------------------------------
(* What the host writes.                                                   *)

\* Items for streams the host has, one after the other
LEMMA KnownConcat ==
    ASSUME NEW q \in Seq(Item), NEW r \in Seq(Item), ForKnown(q), ForKnown(r)
    PROVE  ForKnown(q \o r)
<1>1. /\ Len(q) \in Nat /\ Len(r) \in Nat /\ Len(q \o r) = Len(q) + Len(r)
      /\ \A k \in 1..Len(q) : (q \o r)[k] = q[k]
      /\ \A k \in (Len(q) + 1)..(Len(q) + Len(r)) : (q \o r)[k] = r[k - Len(q)]
  OBVIOUS
<1>2. ASSUME NEW k \in 1..Len(q \o r) PROVE (q \o r)[k].to \in Addressees
  <2>1. CASE k \in 1..Len(q)
    BY <1>1, <2>1 DEF ForKnown
  <2>2. CASE k \notin 1..Len(q)
    <3>1. k \in (Len(q) + 1)..(Len(q) + Len(r)) /\ k - Len(q) \in 1..Len(r)
      BY <1>1, <1>2, <2>2
    <3> QED
      BY <1>1, <3>1 DEF ForKnown
  <2> QED
    BY <2>1, <2>2
<1> QED
  BY <1>2 DEF ForKnown

\* One item
LEMMA KnownOne ==
    ASSUME NEW x \in Item, x.to \in Addressees
    PROVE  ForKnown(<<x>>)
<1>1. Len(<<x>>) = 1 /\ <<x>>[1] = x
  OBVIOUS
<1> QED
  BY <1>1 DEF ForKnown

\* The items of a frame
LEMMA KnownFrame ==
    ASSUME NEW i \in Byte \ {ESC}, i \in Addressees, NEW d \in Seq(Byte)
    PROVE  ForKnown(FrameItems(i, d))
<1> DEFINE a == <<Selected(i)>>
           b == Bytes(i, d)
           e == <<Selected(0)>>
<1>1. 0 \in Byte \ {ESC} /\ 0 \in Addressees
  BY ItemFacts DEF Addressees, DEFAULT
<1>2. /\ a \in Seq(Item) /\ b \in Seq(Item) /\ e \in Seq(Item)
      /\ Selected(i) \in Item /\ Selected(0) \in Item
  BY <1>1, BytesType
<1>3. ForKnown(a) /\ ForKnown(e)
  BY <1>1, <1>2, SelectItem, KnownOne
<1>4. ForKnown(b)
  <2>1. Len(b) = Len(d) /\ \A k \in 1..Len(d) : b[k] = [to |-> i, byte |-> d[k]]
    BY BytesType
  <2> HIDE DEF b
  <2>2. \A x : [to |-> i, byte |-> x].to = i
    OBVIOUS
  <2>3. \A k \in 1..Len(d) : b[k].to = i
    BY <2>1, <2>2, Zenon
  <2> QED
    BY <2>1, <2>3, Zenon DEF ForKnown
<1> HIDE DEF a, b, e
<1>5. a \o b \in Seq(Item) /\ ForKnown(a \o b)
  BY <1>2, <1>3, <1>4, KnownConcat
<1>6. ForKnown((a \o b) \o e)
  BY <1>2, <1>3, <1>5, KnownConcat
<1> QED
  BY <1>6 DEF FrameItems, a, b, e

\* No item
LEMMA NoItems ==
    /\ <<>> \in Seq(Item) /\ Routed(<<>>, 0, 0) /\ ForKnown(<<>>)
    /\ Code(<<>>) = <<>> /\ \A s : Given(s, <<>>) = <<>>
<1>1. <<>> \in Seq(Item) /\ Len(<<>>) = 0
  OBVIOUS
<1>2. Routed(<<>>, 0, 0) /\ ForKnown(<<>>)
  BY <1>1 DEF Routed, At, ForKnown
<1> QED
  BY <1>1, <1>2, CodeEmpty

\* When a frame was cut or the raw UART was used, only the threads are of interest.
LEMMA NotClean ==
    ASSUME ThreadsInv', ~Clean'
    PROVE  DownInv'
BY DEF DownInv, OnLink

\* The host has put the items r on the link and has taken them from the PTY i.
Takes(i, s, r) ==
    \A h \in Seq(Byte) :
        IsSubSeqOf(h \o (buf[i] \o typed[i]), keyed[i]) =>
            IsSubSeqOf((h \o Given(s, r)) \o (buf'[i] \o typed'[i]), keyed[i])

\* A step of the thread of PTY i, or of the thread of the device
LEMMA HostWritesDown ==
    ASSUME LInv, LInv', DownInv, ThreadsInv', NEW i \in PtyIdx,
           UNCHANGED table, UNCHANGED <<keyed, cut, uart_rx, rx_stream, rx_escape, storing, ring, stored>>,
           \A p \in PtyIdx : p # i => buf'[p] = buf[p] /\ typed'[p] = typed[p],
           NEW r \in Seq(Item), tty' = tty \o Code(r), Routed(r, 0, 0), ForKnown(r),
           \A s \in DemuxSinks : i \in StreamPtys(s) => Takes(i, s, r),
           \A s \in DemuxSinks : i \notin StreamPtys(s) => Given(s, r) = <<>>
    PROVE  DownInv'
<1>1. TableInv /\ TableInv' /\ HDTypeOK /\ ThreadsInv /\ RingsType /\ tty \in Seq(Byte) /\ uart_rx \in Seq(Byte)
  BY MuxParts DEF LInv, IInv, DemuxInv, DownInv, RingsInv, HDTypeOK, CMTypeOK
<1>2. ASSUME Clean' PROVE \E q \in Seq(Item), c \in Byte \ {ESC} : Conveys(q, c)'
  <2>1. Clean
    BY <1>2 DEF Clean
  <2>2. PICK q \in Seq(Item), c \in Byte \ {ESC} : Conveys(q, c)
    BY <2>1 DEF DownInv, OnLink
  <2> DEFINE w == uart_rx \o tty
             g == q \o r
  <2>3. w \in Seq(Byte) /\ Code(r) \in Seq(Byte) /\ rx_escape \in BOOLEAN
    BY <1>1, CodeType DEF LInv, CMTypeOK
  <2>4. uart_rx' \o tty' = w \o Code(r)
    <3>1. Regrouped(uart_rx, tty, Code(r))
      BY <1>1, <2>3, Regroup, Zenon
    <3> QED
      BY <3>1, Zenon DEF Regrouped
  <2>5. Pending(q, w, c, rx_escape)
    BY <2>2 DEF Conveys
  <2> HIDE DEF w
  <2>6. g \in Seq(Item) /\ Pending(g, w \o Code(r), c, rx_escape)
    BY <2>3, <2>5, PendingMore
  <2>7. ForKnown(g)
    BY <2>2, KnownConcat DEF Conveys
  <2>8. \A s : Given(s, g) = Given(s, q) \o Given(s, r)
    BY CodeConcat
  <2> HIDE DEF g
  <2>9. Addressees' = Addressees /\ (ForKnown(g)' <=> ForKnown(g))
    BY DEF Addressees, ForKnown, table, Registered
  <2>10. ASSUME NEW s \in DemuxSinks PROVE IsSubSeqOf(Destined(g, s)', TypedFor(s)')
    <3> DEFINE a == InRing(s)
               x == Given(s, q)
               y == Given(s, r)
               h == a \o x
    <3>1. InRing(s)' = a
      BY DEF InRing
    <3>2. a \in Seq(Byte) /\ x \in Seq(Byte) /\ y \in Seq(Byte)
      BY <1>1, InRingType, CodeType
    <3>3. IsSubSeqOf(h \o Waiting(s), TypedFor(s))
      BY <2>2 DEF Conveys, Destined
    <3>4. Destined(g, s)' = (a \o (x \o y)) \o Waiting(s)'
      BY <2>8, <3>1, Zenon DEF Destined
    <3> HIDE DEF a, x, y
    <3>5. h \in Seq(Byte) /\ a \o (x \o y) = h \o y
      <4>1. Joins(a, x, y)
        BY <3>2, ByteJoins
      <4> QED
        BY <4>1, Zenon DEF Joins
    <3>6. CASE i \notin StreamPtys(s)
      <4>1. TypedFor(s)' = TypedFor(s) /\ Waiting(s)' = Waiting(s)
        BY <1>1, <3>6, OtherPty
      <4>2. y = <<>>
        BY <3>6 DEF y
      <4> HIDE DEF h
      <4>3. h \o y = h
        BY <3>5, <4>2
      <4> QED
        BY <3>3, <3>4, <3>5, <4>1, <4>3, Zenon
    <3>7. CASE i \in StreamPtys(s)
      <4>1. TypedFor(s) = keyed[i] /\ Waiting(s) = buf[i] \o typed[i]
        BY <1>1, <3>7, PtyOf
      <4>2. i \in StreamPtys(s)'
        BY <3>7, SamePtys
      <4>3. TypedFor(s)' = keyed[i] /\ Waiting(s)' = buf'[i] \o typed'[i]
        BY <1>1, <4>2, PtyOfThen
      <4>4. Takes(i, s, r)
        BY <3>7
      <4> HIDE DEF h
      <4>5. IsSubSeqOf((h \o y) \o (buf'[i] \o typed'[i]), keyed[i])
        BY <3>3, <3>5, <4>1, <4>4, Zenon DEF Takes, y
      <4> QED
        BY <3>4, <3>5, <4>3, <4>5, Zenon
    <3> QED
      BY <3>6, <3>7
  <2>11. Pending(g, uart_rx \o tty, c, rx_escape)'
    BY <2>4, <2>6
  <2>12. Conveys(g, c)'
    BY <2>2, <2>7, <2>9, <2>10, <2>11 DEF Conveys
  <2> QED
    BY <2>6, <2>12
<1> QED
  BY <1>1, <1>2 DEF DownInv, OnLink

\* What was read goes from the PTY to the thread, or is dropped.
LEMMA ReadPtyDown ==
    ASSUME LInv, LInv', DownInv, NEW i \in PtyIdx, ReadPty(i), UNCHANGED <<gsvars, history>>
    PROVE  DownInv'
<1>1. PICK n \in 1..ReadSize :
          /\ n <= Len(typed[i])
          /\ typed' = [typed EXCEPT ![i] = SubSeq(@, n + 1, Len(@))]
          /\ buf' = IF i \notin Registered \/ (i \in Physical /\ ~EnableRawWrite)
                    THEN buf
                    ELSE [buf EXCEPT ![i] = SubSeq(typed[i], 1, n)]
  BY DEF ReadPty
<1>2. /\ i \in threads /\ typed[i] # <<>> /\ buf[i] = <<>>
      /\ UNCHANGED <<vars, write_lock, tty, greeting, cut>>
  BY DEF ReadPty
<1>3. UNCHANGED table /\ UNCHANGED <<keyed, uart_rx, rx_stream, rx_escape, storing, ring, stored>>
  BY <1>2 DEF vars, gsvars, cmvars, downlinkThread, receivers, history
<1>4. /\ TableInv /\ ThreadsInv /\ typed \in [PtyIdx -> Seq(Byte)] /\ buf \in [PtyIdx -> Seq(Byte)]
      /\ keyed \in [PtyIdx -> Seq(Byte)] /\ tty \in Seq(Byte)
  BY DEF LInv, IInv, DemuxInv, DownInv, HDTypeOK, ThreadsInv
<1> DEFINE u == SubSeq(typed[i], 1, n)
           v == SubSeq(typed[i], n + 1, Len(typed[i]))
           dropped == i \notin Registered \/ (i \in Physical /\ ~EnableRawWrite)
<1>5. /\ u \in Seq(Byte) /\ v \in Seq(Byte) /\ u \o v = typed[i] /\ typed[i] \in Seq(Byte)
  <2>1. typed[i] \in Seq(Byte) /\ n \in 0..Len(typed[i])
    BY <1>1, <1>4, DownlinkAssumption
  <2> QED
    BY <1>1, <2>1, SplitAt
<1>6. /\ typed'[i] = v /\ buf'[i] = IF dropped THEN buf[i] ELSE u
      /\ \A p \in PtyIdx : p # i => buf'[p] = buf[p] /\ typed'[p] = typed[p]
  BY <1>1, <1>4
<1>7. keyed[i] # <<>>
  BY <1>2, <1>4 DEF ThreadsInv
<1> HIDE DEF u, v
<1>8. ThreadsInv'
  <2>1. /\ UNCHANGED <<keyed, opened, threads, greeting>> /\ Registered' = Registered
    BY <1>2, <1>3 DEF table, Registered
  <2>2. ~dropped => i \in Registered /\ (i \in Physical => EnableRawWrite)
    BY DownlinkAssumption
  <2>3. \A p \in PtyIdx : keyed'[p] = <<>> => buf'[p] = <<>> /\ typed'[p] = <<>>
    BY <1>4, <1>6, <1>7, <2>1 DEF ThreadsInv
  <2>4. \A p \in PtyIdx : buf'[p] # <<>> => /\ p \in threads' \cap Registered'
                                            /\ p \in Physical => EnableRawWrite
    BY <1>2, <1>4, <1>6, <2>1, <2>2 DEF ThreadsInv
  <2> QED
    BY <1>4, <2>1, <2>3, <2>4 DEF ThreadsInv
<1>9. tty' = tty \o Code(<<>>)
  BY <1>2, <1>4, NoItems
<1>10. ASSUME NEW s \in DemuxSinks, i \in StreamPtys(s) PROVE Takes(i, s, <<>>)
  <2>1. ~dropped
    BY <1>10 DEF StreamPtys, Physical, RAW_CCPLEX, PHYSICAL_UART_DEFAULT, BuiltinCount
  <2>2. buf'[i] \o typed'[i] = buf[i] \o typed[i]
    <3>1. \A z \in Seq(Byte) : <<>> \o z = z
      OBVIOUS
    <3> QED
      BY <1>2, <1>5, <1>6, <2>1, <3>1, Zenon
  <2>3. \A h \in Seq(Byte) : h \o <<>> = h
    OBVIOUS
  <2> QED
    BY <2>2, <2>3, NoItems, Zenon DEF Takes
<1> QED
  BY <1>2, <1>3, <1>6, <1>8, <1>9, <1>10, NoItems, HostWritesDown

\* Bytes that are written leave the buffer; bytes that are dropped are lost.
LEMMA OutOfBuffer ==
    ASSUME NEW h \in Seq(Byte), NEW d \in Seq(Byte), NEW e \in Seq(Byte), NEW t \in Seq(Byte),
           NEW k \in Seq(Byte), IsSubSeqOf(h \o ((d \o e) \o t), k)
    PROVE  /\ IsSubSeqOf((h \o d) \o (e \o t), k)
           /\ IsSubSeqOf((h \o d) \o (<<>> \o t), k)
           /\ IsSubSeqOf((h \o <<>>) \o (<<>> \o t), k)
<1> DEFINE de == d \o e
           hd == h \o d
           et == e \o t
<1>1. Joins(h, d, e) /\ Joins(d, e, t)
  BY ByteJoins
<1>2. de \in Seq(Byte) /\ hd \in Seq(Byte) /\ et \in Seq(Byte) /\ de \o t = d \o et /\ hd \o e = h \o de
  BY <1>1, Zenon DEF Joins
<1>3. IsSubSeqOf(h \o (de \o t), k)
  OBVIOUS
<1> HIDE DEF de, hd, et
<1>4. Joins(h, de, t) /\ Joins(h, d, et)
  BY <1>2, ByteJoins
<1>5. IsSubSeqOf((h \o de) \o t, k)
  BY <1>3, <1>4, Zenon DEF Joins
<1>6. IsSubSeqOf(hd \o et, k)
  BY <1>2, <1>3, <1>4, Zenon DEF Joins, hd
<1>7. IsSubSeqOf(h \o t, k)
  BY <1>2, <1>5, WithoutMiddle
<1>8. IsSubSeqOf((hd \o e) \o t, k)
  BY <1>2, <1>5, Zenon
<1>9. IsSubSeqOf(hd \o t, k)
  BY <1>2, <1>8, WithoutMiddle
<1>10. <<>> \o t = t /\ h \o <<>> = h
  OBVIOUS
<1> QED
  BY <1>6, <1>7, <1>9, <1>10, Zenon DEF hd, et

\* pty_input_handler writes for a stream that framing can select, or for none.
LEMMA InputStream ==
    ASSUME LInv, NEW i \in threads \cap Registered, i \notin Physical
    PROVE  /\ tags[i].value \in Byte \ {ESC} /\ tags[i].value \in Addressees
           /\ \A s \in DemuxSinks : s = tags[i].value <=> i \in StreamPtys(s)
<1>1. /\ TableShape /\ InputShape /\ ThreadsOnlyForInput /\ num_proc \in Nat
  BY DEF LInv, IInv, DemuxInv, TableInv, TableType, BuiltinCount
<1>2. i \in Nat /\ i \in Registered
  BY <1>1 DEF Registered
<1>3. \A s \in DemuxSinks : s # 0
  BY MuxAssumption DEF ValidStreamId
<1>4. tags[i].value \in Addressees
  BY <1>2 DEF Addressees
<1>5. CASE i < BuiltinCount
  <2>1. tags[i].value = 0
    BY <1>1, <1>2, <1>5 DEF TableShape
  <2>2. 0 \in Byte \ {ESC}
    BY ItemFacts DEF DEFAULT
  <2>3. \A s : i \notin StreamPtys(s)
    BY <1>2, <1>5 DEF StreamPtys, BuiltinCount
  <2> QED
    BY <1>3, <1>4, <2>1, <2>2, <2>3
<1>6. CASE i >= BuiltinCount
  <2>1. tags[i].value \in ValidStreamId
    BY <1>1, <1>2, <1>6 DEF InputShape, ThreadsOnlyForInput
  <2>2. tags[i].value \in Byte \ {ESC}
    BY <2>1, ByteMaxAssumption DEF ValidStreamId, Byte
  <2> QED
    BY <1>2, <1>4, <1>6, <2>2 DEF StreamPtys
<1> QED
  BY <1>2, <1>5, <1>6 DEF BuiltinCount

\* putbuf_or_exit
LEMMA WriteFragmentDown ==
    ASSUME LInv, LInv', DownInv, NEW i \in PtyIdx, WriteFragment(i), UNCHANGED <<gsvars, history>>
    PROVE  DownInv'
<1>1. buf[i] # <<>> /\ UNCHANGED <<vars, typed, greeting>> /\ (Processed(i) \/ GiveUp(i))
  BY DEF WriteFragment
<1>2. UNCHANGED table /\ UNCHANGED <<keyed, uart_rx, rx_stream, rx_escape, storing, ring, stored>>
  BY <1>1 DEF vars, gsvars, cmvars, downlinkThread, receivers, history
<1>3. /\ TypeOK /\ HDTypeOK /\ ThreadsInv /\ typed \in [PtyIdx -> Seq(Byte)] /\ buf \in [PtyIdx -> Seq(Byte)]
      /\ keyed \in [PtyIdx -> Seq(Byte)] /\ tty \in Seq(Byte)
  BY DEF LInv, IInv, DemuxInv, DownInv, HDTypeOK, ThreadsInv
<1> DEFINE n == FragmentLen(i)
           d == SubSeq(buf[i], 1, n)
           e == SubSeq(buf[i], n + 1, Len(buf[i]))
           t == typed[i]
<1>4. d \in Seq(Byte) /\ e \in Seq(Byte) /\ d \o e = buf[i] /\ t \in Seq(Byte) /\ keyed[i] \in Seq(Byte)
  <2>1. n \in 0..Len(buf[i]) /\ buf[i] \in Seq(Byte)
    BY <1>3, FragmentType
  <2> HIDE DEF n
  <2> QED
    BY <1>3, <2>1, SplitAt
<1>5. /\ Processed(i) => buf'[i] = e
      /\ GiveUp(i) => buf'[i] = <<>>
      /\ \A p \in PtyIdx : p # i => buf'[p] = buf[p] /\ typed'[p] = typed[p]
  BY <1>1, <1>3 DEF Processed, GiveUp
<1>6. ThreadsInv'
  <2>1. /\ UNCHANGED <<keyed, opened, threads, greeting, typed>> /\ Registered' = Registered
    BY <1>1, <1>2 DEF table, Registered
  <2>2. keyed[i] # <<>>
    BY <1>1, <1>3 DEF ThreadsInv
  <2>3. \A p \in PtyIdx : keyed'[p] = <<>> => buf'[p] = <<>> /\ typed'[p] = <<>>
    BY <1>3, <1>5, <2>1, <2>2 DEF ThreadsInv
  <2>4. \A p \in PtyIdx : buf'[p] # <<>> => buf[p] # <<>>
    BY <1>1, <1>5
  <2> QED
    BY <1>3, <2>1, <2>3, <2>4 DEF ThreadsInv
<1>7. CASE ~Clean \/ cut'
  <2>1. ~Clean'
    <3>1. cut => cut'
      BY DEF WriteFragment
    <3> QED
      BY <1>2, <1>7, <3>1 DEF Clean
  <2> QED
    BY <1>6, <2>1, NotClean
<1>8. CASE Clean /\ ~cut'
  <2>1. i \in threads \cap Registered /\ i \notin Physical
    BY <1>1, <1>3, <1>8 DEF ThreadsInv, Clean
  <2> DEFINE id == tags[i].value
             r == FrameItems(id, d)
  <2>2. /\ id \in Byte \ {ESC} /\ id \in Addressees
        /\ \A s \in DemuxSinks : s = id <=> i \in StreamPtys(s)
    BY <2>1, InputStream
  <2>3. Fragment(i) = EncodeData(id, d)
    BY <2>1, LinkAssumption DEF Fragment, ToOuter
  <2> HIDE DEF id
  <2>4. /\ r \in Seq(Item) /\ EncodeData(id, d) = Code(r) /\ Routed(r, 0, 0) /\ ForKnown(r)
        /\ \A j : Given(j, r) = IF j = id THEN d ELSE <<>>
    BY <1>4, <2>2, EncodeDataIs, KnownFrame
  <2> HIDE DEF r, d, e, t
  <2>5. cut' = cut
    BY <1>8 DEF Clean, WriteFragment
  <2>6. CASE tty' = tty \o Fragment(i)
    <3>1. tty' = tty \o Code(r)
      BY <2>3, <2>4, <2>6
    <3>2. ASSUME NEW s \in DemuxSinks, i \in StreamPtys(s) PROVE Takes(i, s, r)
      <4>1. Given(s, r) = d
        BY <2>2, <2>4, <3>2
      <4>2. ASSUME NEW h \in Seq(Byte), IsSubSeqOf(h \o (buf[i] \o typed[i]), keyed[i])
            PROVE  IsSubSeqOf((h \o d) \o (buf'[i] \o typed'[i]), keyed[i])
        <5>1. IsSubSeqOf(h \o ((d \o e) \o t), keyed[i])
          BY <1>4, <4>2 DEF t
        <5>2. /\ IsSubSeqOf((h \o d) \o (e \o t), keyed[i])
              /\ IsSubSeqOf((h \o d) \o (<<>> \o t), keyed[i])
          BY <1>4, <5>1, OutOfBuffer
        <5> QED
          BY <1>1, <1>5, <5>2 DEF t
      <4> QED
        BY <4>1, <4>2, Zenon DEF Takes
    <3>3. \A s \in DemuxSinks : i \notin StreamPtys(s) => Given(s, r) = <<>>
      BY <2>2, <2>4
    <3> QED
      BY <1>2, <1>5, <1>6, <2>4, <2>5, <3>1, <3>2, <3>3, HostWritesDown
  <2>7. CASE tty' = tty /\ GiveUp(i)
    <3>1. tty' = tty \o Code(<<>>)
      BY <1>3, <2>7, NoItems
    <3>2. ASSUME NEW s \in DemuxSinks, i \in StreamPtys(s) PROVE Takes(i, s, <<>>)
      <4>1. Given(s, <<>>) = <<>>
        BY NoItems
      <4>2. ASSUME NEW h \in Seq(Byte), IsSubSeqOf(h \o (buf[i] \o typed[i]), keyed[i])
            PROVE  IsSubSeqOf((h \o <<>>) \o (buf'[i] \o typed'[i]), keyed[i])
        <5>1. IsSubSeqOf(h \o ((d \o e) \o t), keyed[i])
          BY <1>4, <4>2 DEF t
        <5>2. IsSubSeqOf((h \o <<>>) \o (<<>> \o t), keyed[i])
          BY <1>4, <5>1, OutOfBuffer
        <5> QED
          BY <1>1, <1>5, <2>7, <5>2 DEF t
      <4> QED
        BY <4>1, <4>2, Zenon DEF Takes
    <3> QED
      BY <1>2, <1>5, <1>6, <2>5, <3>1, <3>2, NoItems, HostWritesDown
  <2> QED
    BY <1>8, <2>6, <2>7 DEF WriteFragment
<1> QED
  BY <1>7, <1>8

\* A thread of a PTY
LEMMA PtyThreadDown ==
    ASSUME LInv, LInv', DownInv, NEW i \in PtyIdx, HostWrites(i)
    PROVE  DownInv'
<1>1. PtyThread(i) /\ UNCHANGED <<gsvars, history>>
  BY DEF HostWrites
<1>2. CASE LockTty(i) \/ UnlockTty(i)
  <2>1. UNCHANGED <<vars, typed, buf, tty, greeting, cut>>
    BY <1>2 DEF LockTty, UnlockTty
  <2>2. UNCHANGED table /\ UNCHANGED <<keyed, uart_rx, rx_stream, rx_escape, storing, ring, stored>>
    BY <1>1, <2>1 DEF vars, gsvars, cmvars, downlinkThread, receivers, history
  <2> QED
    BY <2>1, <2>2, DownUnchanged DEF InRing
<1> QED
  BY <1>1, <1>2, ReadPtyDown, WriteFragmentDown DEF PtyThread

\* The device is reopened: what the host puts on the link then is for no stream.
LEMMA ReopenDown ==
    ASSUME LInv, LInv', DownInv, HostReopens
    PROVE  DownInv'
<1>1. UNCHANGED <<vars, typed, buf, cut, gsvars, keyed>> /\ (ReopenTty \/ PutGreeting)
  BY DEF HostReopens, ReopenTty, PutGreeting
<1>2. UNCHANGED table /\ UNCHANGED <<uart_rx, rx_stream, rx_escape, storing, ring, stored>>
  BY <1>1 DEF vars, gsvars, cmvars, downlinkThread, receivers
<1>3. ThreadsInv /\ tty \in Seq(Byte) /\ greeting \in Seq(Byte \ {ESC})
  BY DEF LInv, HDTypeOK, DownInv, ThreadsInv
<1>4. greeting' \in Seq(Byte \ {ESC})
  <2>1. CASE ReopenTty
    <3>1. {0, OUTER_ESC, OUTER_RESET} \subseteq Byte \ {ESC}
      BY ByteMaxAssumption DEF OUTER_ESC, OUTER_RESET, ESC, Byte
    <3>2. <<0, OUTER_ESC, OUTER_RESET>> \in Seq(Byte \ {ESC})
      BY <3>1
    <3> QED
      BY <2>1, <3>2 DEF ReopenTty
  <2>2. CASE PutGreeting
    BY <1>3, <2>2, HeadAndTail DEF PutGreeting
  <2> QED
    BY <1>1, <2>1, <2>2
<1>5. ThreadsInv'
  BY <1>1, <1>2, <1>3, <1>4 DEF ThreadsInv, table, Registered
<1>6. 0 \in PtyIdx /\ \A s : 0 \notin StreamPtys(s)
  BY MaxPtyAssumption DEF PtyIdx, StreamPtys, BuiltinCount
<1>7. CASE UNCHANGED tty
  <2>1. tty' = tty \o Code(<<>>)
    BY <1>3, <1>7, NoItems
  <2> QED
    BY <1>1, <1>2, <1>5, <1>6, <2>1, NoItems, HostWritesDown
<1>8. CASE greeting # <<>> /\ tty' = Append(tty, Head(greeting))
  <2> DEFINE b == Head(greeting)
             x == [to |-> 0, byte |-> b]
  <2>1. b \in Byte \ {ESC} /\ 0 \in Byte \ {ESC} /\ 0 \in Addressees
    BY <1>3, <1>8, HeadAndTail, ItemFacts DEF Addressees, DEFAULT
  <2>2. tty' = tty \o <<b>>
    BY <1>3, <1>8, <2>1, AppendIsConcat, Zenon
  <2> HIDE DEF b
  <2>3. /\ x \in Item /\ x.byte # SELECT /\ x.to = 0 /\ CodeOf[x] = Coded(b)
        /\ \A j : DataOf(j)[x] = IF j = 0 THEN <<b>> ELSE <<>>
    BY <2>1, ByteItem
  <2> HIDE DEF x
  <2>4. <<x>> \in Seq(Item) /\ Code(<<x>>) = <<b>> /\ ForKnown(<<x>>)
    BY <2>1, <2>3, CodeOne, KnownOne DEF Coded
  <2>5. Routed(<<x>>, 0, 0)
    BY <2>3, RoutedOne
  <2>6. \A s \in DemuxSinks : Given(s, <<x>>) = <<>>
    BY <2>3, CodeOne, MuxAssumption DEF ValidStreamId
  <2> QED
    BY <1>1, <1>2, <1>5, <1>6, <2>2, <2>4, <2>5, <2>6, HostWritesDown
<1> QED
  BY <1>1, <1>7, <1>8 DEF ReopenTty, PutGreeting

\* The UART takes a byte from the host to the target.
LEMMA LinkDownDown ==
    ASSUME LInv, DownInv, LinkDown
    PROVE  DownInv'
<1>1. /\ tty # <<>> /\ uart_rx = <<>> /\ uart_rx' = <<Head(tty)>> /\ tty' = Tail(tty)
      /\ UNCHANGED <<downlinkThread, receivers, vars, typed, buf, greeting, cut, history>>
  BY DEF LinkDown
<1>2. tty \in Seq(Byte)
  BY DEF LInv, HDTypeOK
<1>3. uart_rx' \o tty' = uart_rx \o tty
  <2>1. <<Head(tty)>> \o Tail(tty) = tty /\ <<>> \o tty = tty
    BY <1>1, <1>2, HeadAndTail
  <2> QED
    BY <1>1, <2>1
<1>4. UNCHANGED table /\ UNCHANGED <<keyed, rx_stream, rx_escape, storing, ring, stored>>
  BY <1>1 DEF vars, downlinkThread, receivers, history
<1>5. ThreadsInv'
  BY <1>1, <1>4 DEF DownInv, ThreadsInv, table, Registered
<1>6. ASSUME Clean' PROVE \E q \in Seq(Item), c \in Byte \ {ESC} : Conveys(q, c)'
  <2>1. Clean
    BY <1>1, <1>4, <1>6 DEF Clean
  <2>2. PICK q \in Seq(Item), c \in Byte \ {ESC} : Conveys(q, c)
    BY <2>1 DEF DownInv, OnLink
  <2>3. ASSUME NEW s \in DemuxSinks PROVE TypedFor(s)' = TypedFor(s) /\ Destined(q, s)' = Destined(q, s)
    <3>1. StreamPtys(s)' = StreamPtys(s)
      BY <1>4, SamePtys
    <3>2. TypedFor(s)' = TypedFor(s) /\ Waiting(s)' = Waiting(s)
      BY <1>1, <1>4, <3>1 DEF TypedFor, Waiting
    <3>3. InRing(s)' = InRing(s)
      BY <1>4 DEF InRing
    <3> QED
      BY <3>2, <3>3, Zenon DEF Destined
  <2>4. Addressees' = Addressees /\ (ForKnown(q)' <=> ForKnown(q))
    BY <1>4 DEF Addressees, ForKnown, table, Registered
  <2>5. Pending(q, uart_rx \o tty, c, rx_escape)'
    BY <1>3, <1>4, <2>2 DEF Conveys
  <2>6. Conveys(q, c)'
    BY <1>4, <2>2, <2>3, <2>4, <2>5 DEF Conveys
  <2> QED
    BY <2>6
<1> QED
  BY <1>5, <1>6 DEF DownInv, OnLink

-----------------------------------------------------------------------------
(* What the interrupt thread reads.                                        *)

\* A byte arrives in a ring, or is lost.
LEMMA IntoRing ==
    ASSUME NEW a \in Seq(Byte), NEW x \in Seq(Byte), NEW g \in Seq(Byte), NEW w \in Seq(Byte),
           NEW k \in Seq(Byte), IsSubSeqOf((a \o (x \o g)) \o w, k)
    PROVE  IsSubSeqOf(((a \o x) \o g) \o w, k) /\ IsSubSeqOf((a \o g) \o w, k)
<1> DEFINE ax == a \o x
           gw == g \o w
<1>1. Joins(a, x, g) /\ Joins(g, w, w) /\ Joins(a, g, w)
  BY ByteJoins
<1>2. ax \in Seq(Byte) /\ gw \in Seq(Byte) /\ a \o (x \o g) = ax \o g /\ (a \o g) \o w = a \o gw
  BY <1>1, Zenon DEF Joins
<1>3. IsSubSeqOf((ax \o g) \o w, k)
  BY <1>2, Zenon
<1> HIDE DEF ax, gw
<1>4. Joins(ax, g, w)
  BY <1>2, ByteJoins
<1>5. IsSubSeqOf(ax \o gw, k)
  BY <1>3, <1>4, Zenon DEF Joins, gw
<1>6. IsSubSeqOf((a \o x) \o gw, k)
  BY <1>5 DEF ax
<1>7. IsSubSeqOf(a \o gw, k)
  BY <1>2, <1>6, WithoutMiddle
<1> QED
  BY <1>2, <1>3, <1>7, Zenon DEF ax

\* The interrupt thread has read a byte: the items q are on the link now, d is
\* selected, and stream s gets x of the byte, or nothing.
LEMMA IrqReadsDown ==
    ASSUME LInv, LInv', DownInv, UNCHANGED <<vars, hdvars, history>>, NEW p \in Seq(Item),
           NEW c \in Byte \ {ESC}, Conveys(p, c),
           NEW q \in Seq(Item), NEW d \in Byte \ {ESC},
           Pending(q, uart_rx' \o tty, d, rx_escape'), ForKnown(q), d \in Addressees,
           rx_stream' = IF d \in DemuxSinks THEN d ELSE -1,
           \A s \in DemuxSinks : \E x \in Seq(Byte) :
               /\ Given(s, p) = x \o Given(s, q)
               /\ InRing(s)' = InRing(s) \/ InRing(s)' = InRing(s) \o x
    PROVE  DownInv'
<1>1. UNCHANGED table /\ UNCHANGED <<typed, buf, tty, greeting, cut, keyed>>
  BY DEF vars, hdvars, history
<1>2. TableInv /\ HDTypeOK /\ ThreadsInv /\ RingsType
  BY MuxParts DEF LInv, IInv, DemuxInv, DownInv, RingsInv
<1>3. ThreadsInv'
  BY <1>1, <1>2 DEF ThreadsInv, table, Registered
<1>4. ASSUME NEW s \in DemuxSinks PROVE IsSubSeqOf(Destined(q, s)', TypedFor(s)')
  <2>1. PICK x \in Seq(Byte) : /\ Given(s, p) = x \o Given(s, q)
                               /\ InRing(s)' = InRing(s) \/ InRing(s)' = InRing(s) \o x
    OBVIOUS
  <2>2. StreamPtys(s)' = StreamPtys(s)
    BY <1>1, SamePtys
  <2>3. TypedFor(s)' = TypedFor(s) /\ Waiting(s)' = Waiting(s)
    BY <1>1, <2>2 DEF TypedFor, Waiting
  <2> DEFINE a == InRing(s)
             g == Given(s, q)
             w == Waiting(s)
             k == TypedFor(s)
  <2>4. a \in Seq(Byte) /\ g \in Seq(Byte) /\ w \in Seq(Byte) /\ k \in Seq(Byte)
    BY <1>2, InRingType, CodeType, WaitingType
  <2>5. IsSubSeqOf((a \o (x \o g)) \o w, k)
    BY <2>1, Zenon DEF Conveys, Destined
  <2>6. Destined(q, s)' = (InRing(s)' \o g) \o w
    BY <2>3, Zenon DEF Destined
  <2> HIDE DEF a, g, w, k
  <2>7. IsSubSeqOf(((a \o x) \o g) \o w, k) /\ IsSubSeqOf((a \o g) \o w, k)
    BY <2>4, <2>5, IntoRing
  <2> QED
    BY <2>1, <2>3, <2>6, <2>7, Zenon DEF a, k
<1>5. Addressees' = Addressees /\ (ForKnown(q)' <=> ForKnown(q))
  BY <1>1 DEF Addressees, ForKnown, table, Registered
<1>6. Pending(q, uart_rx \o tty, d, rx_escape)'
  BY <1>1
<1>7. Conveys(q, d)'
  BY <1>4, <1>5, <1>6 DEF Conveys
<1> QED
  BY <1>3, <1>7 DEF DownInv, OnLink

\* Items that follow are for streams the host has, too.
LEMMA KnownTail ==
    ASSUME NEW q \in Seq(Item), q # <<>>, ForKnown(q)
    PROVE  ForKnown(Tail(q)) /\ Head(q).to \in Addressees
<1> DEFINE n == Len(q)
           t == Tail(q)
<1>1. n \in Nat /\ n >= 1 /\ Head(q) = q[1]
  BY EmptySeq
<1>2. Len(t) = n - 1 /\ \A k \in 1..(n - 1) : t[k] = q[k + 1] /\ k + 1 \in 1..n
  BY <1>1
<1>3. 1 \in 1..n /\ \A k \in 1..n : q[k].to \in Addressees
  BY <1>1 DEF ForKnown
<1> HIDE DEF n, t
<1> QED
  BY <1>1, <1>2, <1>3 DEF ForKnown, t

\* A stored byte is the next one in its ring.
LEMMA StoreDown ==
    ASSUME LInv, storing = {}, UNCHANGED stored, NEW c \in DemuxSinks, NEW b \in Byte, StoreByte(c, b)
    PROVE  /\ InRing(c)' = InRing(c) \/ InRing(c)' = InRing(c) \o <<b>>
           /\ \A s \in DemuxSinks : s # c => InRing(s)' = InRing(s)
<1>1. ring \in [DemuxSinks -> Ring] /\ stored \in [DemuxSinks -> Seq(Byte)]
  BY MuxParts DEF RingsInv, RingsType
<1>2. CASE UNCHANGED <<ring, storing>>
  BY <1>2 DEF InRing
<1>3. CASE ring' = [ring EXCEPT ![c].buf[ring[c].tail] = b] /\ storing' = {c}
  <2>1. ring[c] \in Ring /\ ring[c].tail \in RingIdx /\ ring[c].buf \in [RingIdx -> Byte]
    BY <1>1 DEF Ring
  <2>2. ring'[c].tail = ring[c].tail /\ ring'[c].buf[ring[c].tail] = b
    BY <1>1, <1>3, <2>1 DEF Ring
  <2>3. stored[c] \in Seq(Byte)
    BY <1>1
  <2>4. InRing(c)' = stored[c] \o <<b>>
    BY <1>3, <2>2 DEF InRing
  <2>5. InRing(c) = stored[c]
    BY <2>3 DEF InRing
  <2>6. ASSUME NEW s \in DemuxSinks, s # c PROVE InRing(s)' = InRing(s)
    BY <1>3, <2>6 DEF InRing
  <2> QED
    BY <2>4, <2>5, <2>6
<1> QED
  BY <1>2, <1>3 DEF StoreByte

\* console_mux_feed_downlink_byte
LEMMA FeedDown ==
    ASSUME LInv, LInv', DownInv, FeedDownlinkByte, UNCHANGED <<vars, hdvars, history>>
    PROVE  DownInv'
<1> DEFINE b == Head(uart_rx)
           w == uart_rx \o tty
<1>1. /\ storing = {} /\ ack = <<>> /\ uart_rx # <<>> /\ uart_rx' = Tail(uart_rx)
      /\ \/ DownlinkDefault(b) \/ DownlinkEscape(b) \/ DownlinkStream(b)
         \/ DownlinkEscapeStart(b) \/ DownlinkPayload(b)
      /\ UNCHANGED stored
  BY DEF FeedDownlinkByte, IrqIdle
<1>2. uart_rx \in Seq(Byte) /\ tty \in Seq(Byte) /\ rx_escape \in BOOLEAN
  BY DEF LInv, CMTypeOK, HDTypeOK
<1>3. b \in Byte /\ w \in Seq(Byte) /\ w # <<>> /\ Head(w) = b /\ Tail(w) = uart_rx' \o tty
  <2>1. Len(uart_rx) \in Nat /\ Len(uart_rx) > 0 /\ b \in Byte
    BY <1>1, <1>2, EmptySeq, HeadAndTail
  <2>2. w \in Seq(Byte) /\ w # <<>> /\ Head(w) = b
    BY <1>2, <2>1
  <2>3. Tail(w) = Tail(uart_rx) \o tty
    BY <1>2, <2>1
  <2> QED
    BY <1>1, <2>1, <2>2, <2>3
<1> HIDE DEF b, w
<1>4. CASE ~Clean
  <2>1. ~Clean'
    BY <1>4 DEF Clean, hdvars, history
  <2>2. ThreadsInv'
    BY DEF DownInv, ThreadsInv, vars, hdvars, history, table, Registered
  <2> QED
    BY <2>1, <2>2, NotClean
<1>5. ASSUME NEW q \in Seq(Item), NEW c \in Byte \ {ESC}, Conveys(q, c) PROVE DownInv'
  <2>1. /\ Pending(q, w, c, rx_escape) /\ ForKnown(q) /\ c \in Addressees
        /\ rx_stream = IF c \in DemuxSinks THEN c ELSE -1
    BY <1>5 DEF Conveys, w
  <2>2. \A y \in Seq(Byte) : <<>> \o y = y
    OBVIOUS
  <2>3. CASE DownlinkEscapeStart(b)
    <3>1. ~rx_escape /\ b = ESC /\ rx_escape' /\ UNCHANGED <<rx_stream, storing, ring>>
      BY <2>3 DEF DownlinkEscapeStart
    <3>2. Pending(q, Tail(w), c, TRUE)
      <4>1. rx_escape = FALSE
        BY <1>2, <3>1
      <4>2. Pending(q, w, c, FALSE) /\ Head(w) = ESC
        BY <1>3, <2>1, <3>1, <4>1
      <4> QED
        BY <1>3, <4>2, ReadEscape
    <3>3. Pending(q, uart_rx' \o tty, c, rx_escape')
      BY <1>3, <3>1, <3>2
    <3>4. ASSUME NEW s \in DemuxSinks
          PROVE  \E x \in Seq(Byte) : /\ Given(s, q) = x \o Given(s, q)
                                      /\ InRing(s)' = InRing(s) \/ InRing(s)' = InRing(s) \o x
      <4>1. InRing(s)' = InRing(s) /\ <<>> \in Seq(Byte) /\ Given(s, q) \in Seq(Byte)
        BY <1>1, <3>1, CodeType DEF InRing
      <4> QED
        BY <2>2, <4>1
    <3> QED
      BY <1>5, <2>1, <3>1, <3>3, <3>4, IrqReadsDown
  <2>4. CASE DownlinkEscape(b) \/ DownlinkPayload(b)
    <3>1. /\ rx_escape <=> b = ESC
          /\ rx_escape' = FALSE /\ rx_stream' = rx_stream
          /\ \/ rx_stream >= 0 /\ StoreByte(rx_stream, b)
             \/ rx_stream < 0 /\ UNCHANGED <<ring, storing>>
      BY <1>2, <2>4 DEF DownlinkEscape, DownlinkPayload
    <3> DEFINE t == Tail(q)
    <3>2. /\ t \in Seq(Item) /\ Pending(t, Tail(w), c, FALSE)
          /\ \A s : Given(s, q) = (IF s = c THEN <<b>> ELSE <<>>) \o Given(s, t)
      <4> DEFINE esc == rx_escape
      <4>1. Pending(q, w, c, esc) /\ (esc <=> Head(w) = ESC) /\ esc \in BOOLEAN
        BY <1>2, <1>3, <2>1, <3>1
      <4> HIDE DEF esc
      <4>2. /\ Tail(q) \in Seq(Item) /\ Pending(Tail(q), Tail(w), c, FALSE)
            /\ Brings(q, Tail(q), c, Head(w))
        BY <1>3, <4>1, ReadData
      <4> QED
        BY <1>3, <4>2, Zenon DEF Brings
    <3>3. q # <<>>
      <4>1. ~rx_escape => w = Code(q)
        BY <2>1 DEF Pending
      <4> QED
        BY <1>3, <2>1, <4>1, CodeEmpty DEF Pending
    <3>4. ForKnown(t)
      BY <2>1, <3>3, KnownTail
    <3> HIDE DEF t
    <3>5. Pending(t, uart_rx' \o tty, c, rx_escape')
      BY <1>3, <3>1, <3>2
    <3>6. ASSUME NEW s \in DemuxSinks
          PROVE  \E x \in Seq(Byte) : /\ Given(s, q) = x \o Given(s, t)
                                      /\ InRing(s)' = InRing(s) \/ InRing(s)' = InRing(s) \o x
      <4>1. <<>> \in Seq(Byte) /\ <<b>> \in Seq(Byte)
        BY <1>3
      <4>2. CASE s = c
        <5>1. rx_stream = c
          BY <2>1, <4>2
        <5>2. c >= 0
          BY <1>5, ByteMaxAssumption DEF Byte
        <5>3. StoreByte(c, b)
          BY <3>1, <5>1, <5>2, ByteMaxAssumption DEF Byte
        <5>4. InRing(c)' = InRing(c) \/ InRing(c)' = InRing(c) \o <<b>>
          BY <1>1, <1>3, <4>2, <5>3, StoreDown
        <5>5. Given(s, q) = <<b>> \o Given(s, t)
          BY <3>2, <4>2
        <5> QED
          BY <4>1, <4>2, <5>4, <5>5
      <4>3. CASE s # c
        <5>1. InRing(s)' = InRing(s)
          <6>1. CASE c \in DemuxSinks /\ StoreByte(c, b)
            BY <1>1, <1>3, <4>3, <6>1, StoreDown
          <6>2. CASE UNCHANGED <<ring, storing>>
            BY <1>1, <6>2 DEF InRing
          <6> QED
            BY <2>1, <3>1, <6>1, <6>2
        <5>2. Given(s, q) = <<>> \o Given(s, t)
          BY <3>2, <4>3
        <5> QED
          BY <4>1, <5>1, <5>2
      <4> QED
        BY <4>2, <4>3
    <3> QED
      BY <1>5, <2>1, <3>1, <3>2, <3>4, <3>5, <3>6, IrqReadsDown
  <2>5. CASE DownlinkDefault(b) \/ DownlinkStream(b)
    <3>1. rx_escape /\ b # ESC /\ rx_escape' = FALSE /\ UNCHANGED <<storing, ring>>
      BY <2>5, ItemFacts DEF DownlinkDefault, DownlinkStream
    <3>2. rx_stream' = IF b \in DemuxSinks THEN b ELSE -1
      BY <2>5, MuxAssumption DEF DownlinkDefault, DownlinkStream, DEFAULT, ValidStreamId
    <3> DEFINE t == Tail(q)
    <3>3. rx_escape = TRUE
      BY <1>2, <3>1
    <3>4. /\ q # <<>> /\ t \in Seq(Item) /\ Head(q).to = b /\ Pending(t, Tail(w), b, FALSE)
          /\ \A s : Given(s, q) = Given(s, t)
      BY <1>3, <2>1, <3>1, <3>3, ReadSelect
    <3>5. ForKnown(t) /\ b \in Addressees
      BY <2>1, <3>4, KnownTail
    <3> HIDE DEF t
    <3>6. Pending(t, uart_rx' \o tty, b, rx_escape')
      BY <1>3, <3>1, <3>4
    <3>7. ASSUME NEW s \in DemuxSinks
          PROVE  \E x \in Seq(Byte) : /\ Given(s, q) = x \o Given(s, t)
                                      /\ InRing(s)' = InRing(s) \/ InRing(s)' = InRing(s) \o x
      <4>1. InRing(s)' = InRing(s) /\ <<>> \in Seq(Byte) /\ Given(s, t) \in Seq(Byte)
        BY <1>1, <3>1, <3>4, CodeType DEF InRing
      <4>2. Given(s, q) = <<>> \o Given(s, t)
        BY <2>2, <3>4, <4>1
      <4> QED
        BY <4>1, <4>2
    <3>8. b \in Byte \ {ESC}
      BY <1>3, <3>1
    <3> QED
      BY <1>5, <3>2, <3>4, <3>5, <3>6, <3>7, <3>8, IrqReadsDown
  <2> QED
    BY <1>1, <2>3, <2>4, <2>5
<1> QED
  BY <1>4, <1>5 DEF DownInv, OnLink

\* The interrupt thread
LEMMA IrqDown ==
    ASSUME LInv, LInv', DownInv, MuxIrqStep
    PROVE  DownInv'
<1>1. IrqThread /\ UNCHANGED <<vars, hdvars, history>>
  BY DEF MuxIrqStep
<1>2. UNCHANGED table /\ UNCHANGED <<typed, buf, tty, greeting, cut, keyed>>
  BY <1>1 DEF vars, hdvars, history
<1>3. CASE PutAck
  <2>1. UNCHANGED <<rx_stream, rx_escape, storing, ring, stored, uart_rx>>
    BY <1>3 DEF PutAck, receivers
  <2> QED
    BY <1>2, <2>1, DownUnchanged DEF InRing
<1>4. CASE PublishByte
  <2>1. PICK c \in storing : /\ ring' = [ring EXCEPT ![c].tail = NextTail(ring[c])]
                             /\ stored' = [stored EXCEPT ![c] = Append(@, ring[c].buf[ring[c].tail])]
    BY <1>4 DEF PublishByte
  <2>2. storing' = {} /\ UNCHANGED <<rx_stream, rx_escape, uart_rx>>
    BY <1>4 DEF PublishByte
  <2>3. /\ c \in DemuxSinks /\ storing = {c} /\ ring[c] \in Ring
        /\ stored \in [DemuxSinks -> Seq(Byte)]
    BY <2>1, MuxParts DEF RingsInv, RingsType, StoresWhereRoom, IrqType
  <2> DEFINE b == ring[c].buf[ring[c].tail]
  <2>4. b \in Byte /\ stored[c] \in Seq(Byte)
    BY <2>3, RingFacts
  <2>5. stored'[c] = Append(stored[c], b) /\ \A s \in DemuxSinks : s # c => stored'[s] = stored[s]
    BY <2>1, <2>3
  <2>6. ASSUME NEW s \in DemuxSinks PROVE InRing(s)' = InRing(s)
    <3>1. InRing(s)' = stored'[s] \o <<>>
      BY <2>2 DEF InRing
    <3>2. CASE s # c
      BY <2>3, <2>5, <3>1, <3>2 DEF InRing
    <3>3. CASE s = c
      <4>1. InRing(s) = stored[c] \o <<b>>
        BY <2>3, <3>3 DEF InRing
      <4> HIDE DEF b
      <4>2. Append(stored[c], b) \o <<>> = stored[c] \o <<b>>
        BY <2>4
      <4> QED
        BY <2>5, <3>1, <3>3, <4>1, <4>2
    <3> QED
      BY <3>2, <3>3
  <2> QED
    BY <1>2, <2>2, <2>6, DownUnchanged
<1>5. CASE FeedDownlinkByte
  BY <1>1, <1>5, FeedDown
<1> QED
  BY <1>1, <1>3, <1>4, <1>5 DEF IrqThread

-----------------------------------------------------------------------------
(* Only what was typed arrives.                                            *)

\* Nothing has been typed at the start.
LEMMA LInitDown == LInit => DownInv
<1> SUFFICES ASSUME LInit PROVE DownInv
  OBVIOUS
<1>1. /\ keyed = [i \in PtyIdx |-> <<>>] /\ typed = [i \in PtyIdx |-> <<>>]
      /\ buf = [i \in PtyIdx |-> <<>>] /\ tty = <<>> /\ greeting = <<>>
  BY DEF LInit, HDInit
<1>2. /\ uart_rx = <<>> /\ rx_stream = -1 /\ rx_escape = FALSE /\ storing = {}
      /\ stored = [s \in DemuxSinks |-> <<>>]
  BY DEF LInit, GSInit, CMInit
<1>3. ThreadsInv
  BY <1>1 DEF ThreadsInv
<1>4. 0 \in Byte \ {ESC} /\ 0 \in Addressees /\ 0 \notin DemuxSinks
  BY ItemFacts, MuxAssumption DEF Addressees, DEFAULT, ValidStreamId
<1>5. <<>> \o <<>> = <<>>
  OBVIOUS
<1>6. ASSUME NEW s \in DemuxSinks PROVE IsSubSeqOf(Destined(<<>>, s), TypedFor(s))
  <2>1. InRing(s) = <<>>
    BY <1>2, <1>5 DEF InRing
  <2>2. TypedFor(s) = <<>> /\ Waiting(s) = <<>>
    <3>1. CASE StreamPtys(s) = {}
      BY <3>1, NoPty
    <3>2. CASE StreamPtys(s) # {}
      <4> DEFINE p == CHOOSE p \in StreamPtys(s) : TRUE
      <4>1. p \in StreamPtys(s)
        BY <3>2
      <4>2. TableInv
        BY InitIInv DEF LInit, IInv, DemuxInv
      <4>3. p \in PtyIdx
        BY <4>1, <4>2, StreamPtysAre DEF TableInv
      <4>4. keyed[p] = <<>> /\ buf[p] = <<>> /\ typed[p] = <<>>
        BY <1>1, <4>3
      <4> QED
        BY <1>5, <3>2, <4>4, Zenon DEF TypedFor, Waiting
    <3> QED
      BY <3>1, <3>2
  <2>3. Destined(<<>>, s) = <<>>
    BY <1>5, <2>1, <2>2, NoItems, Zenon DEF Destined
  <2>4. <<>> \in Seq(Byte)
    OBVIOUS
  <2>5. IsSubSeqOf(<<>>, <<>>)
    BY <2>4, SubSeqOfItself
  <2> QED
    BY <2>2, <2>3, <2>5
<1>7. Pending(<<>>, uart_rx \o tty, 0, rx_escape)
  BY <1>1, <1>2, <1>5, NoItems DEF Pending
<1>8. Conveys(<<>>, 0)
  BY <1>2, <1>4, <1>6, <1>7, NoItems DEF Conveys
<1> QED
  BY <1>3, <1>4, <1>8, NoItems DEF DownInv, OnLink

\* Every step keeps it.
LEMMA LNextDown == LInv /\ LInv' /\ DownInv /\ [LNext]_lvars => DownInv'
<1> SUFFICES ASSUME LInv, LInv', DownInv, [LNext]_lvars PROVE DownInv'
  OBVIOUS
<1>1. ASSUME UNCHANGED <<vars, hdvars, keyed, downlinkThread, ring, stored, uart_rx>> PROVE DownInv'
  <2>1. UNCHANGED table /\ UNCHANGED <<typed, buf, tty, greeting, cut, rx_stream, rx_escape, storing>>
    BY <1>1 DEF vars, hdvars, downlinkThread
  <2> QED
    BY <1>1, <2>1, DownUnchanged DEF InRing
<1>2. ASSUME NEW c \in MuxClients, SinkReturns(c) \/ \E b \in PutBytes : GuestPrints(c, b)
      PROVE  DownInv'
  <2>1. UNCHANGED <<vars, hdvars, keyed, downlinkThread, receivers, uart_rx>>
    BY <1>2 DEF SinkReturns, GuestPrints, FlushDone, Putchar, history
  <2> QED
    BY <1>1, <2>1 DEF receivers
<1>3. CASE MuxUplinkStep
  <2>1. UNCHANGED <<vars, hdvars, keyed, downlinkThread, receivers, uart_rx>>
    BY <1>3 DEF MuxUplinkStep, UplinkThread, PutUplink, MuxReturn, MuxBatch, history
  <2> QED
    BY <1>1, <2>1 DEF receivers
<1>4. ASSUME NEW s \in DemuxSinks, ReceiverStep(s) PROVE DownInv'
  <2>1. UNCHANGED <<vars, hdvars, keyed, downlinkThread, stored, uart_rx>> /\ Receiver(s)
    BY <1>4 DEF ReceiverStep, Receiver, Wake, TakeByte, Sleep, history
  <2>2. CASE UNCHANGED ring
    BY <1>1, <2>1, <2>2
  <2>3. CASE ring' = [ring EXCEPT ![s].head = (@ + 1) % RingSize]
    <3>1. ring \in [DemuxSinks -> Ring]
      BY MuxParts DEF RingsInv, RingsType
    <3>2. \A x \in DemuxSinks : ring'[x].tail = ring[x].tail /\ ring'[x].buf = ring[x].buf
      BY <2>3, <3>1 DEF Ring
    <3>3. UNCHANGED table /\ UNCHANGED <<typed, buf, tty, greeting, cut, rx_stream, rx_escape, storing>>
      BY <2>1 DEF vars, hdvars, downlinkThread
    <3> QED
      BY <2>1, <3>2, <3>3, DownUnchanged DEF InRing
  <2> QED
    BY <2>1, <2>2, <2>3 DEF Receiver, Wake, TakeByte, Sleep
<1>5. CASE UNCHANGED lvars
  <2>1. UNCHANGED <<vars, hdvars, keyed, downlinkThread, receivers, uart_rx>>
    BY <1>5 DEF lvars, gsvars, cmvars, history
  <2> QED
    BY <1>1, <2>1 DEF receivers
<1> QED
  BY <1>2, <1>3, <1>4, <1>5, IrqDown, HostReceivesDown, UserTypesDown, PtyThreadDown, ReopenDown,
     LinkDownDown DEF LNext

\* The invariant of the way down
LEMMA DownInductive == LSpec => [](LInv /\ DownInv)
<1>1. LInit => LInv /\ DownInv
  BY LInitLInv, LInitDown
<1>2. LInv /\ DownInv /\ [LNext]_lvars => LInv' /\ DownInv'
  BY LNextLInv, LNextDown
<1> QED
  BY <1>1, <1>2, PTL DEF LSpec

\* For every number of PTYs, size of a ring, a read and a fragment, whatever
\* timeouts, failed drains, reopened devices and full rings lose: as long as no
\* write was short and nobody used the raw UART, a receiver gets bytes that were
\* typed into the PTY of its stream, in their order, none twice and no other.
THEOREM OnlyTypedArrives == LSpec => []OnlyTypedUnlessCut
<1>1. LInv /\ DownInv => OnlyTypedUnlessCut
  <2> SUFFICES ASSUME LInv, DownInv, ~cut, \A i \in Physical : keyed[i] = <<>>,
                      NEW s \in DemuxSinks
               PROVE  IsSubSeqOf(received[s], TypedFor(s))
    BY DEF OnlyTypedUnlessCut, OnlyTyped
  <2>1. PICK q \in Seq(Item), c \in Byte \ {ESC} : Conveys(q, c)
    BY DEF DownInv, OnLink, Clean
  <2>2. TableInv /\ HDTypeOK /\ ThreadsInv /\ RingsType
    BY MuxParts DEF LInv, IInv, DemuxInv, DownInv, RingsInv
  <2> DEFINE a == received[s]
             n == Contents(ring[s])
             e == IF s \in storing THEN <<ring[s].buf[ring[s].tail]>> ELSE <<>>
             g == Given(s, q)
             w == Waiting(s)
             k == TypedFor(s)
  <2>3. /\ a \in Seq(Byte) /\ n \in Seq(Byte) /\ g \in Seq(Byte) /\ w \in Seq(Byte)
        /\ k \in Seq(Byte) /\ e \in Seq(Byte)
    <3>1. ring[s] \in Ring /\ received[s] \in Seq(Byte)
      BY <2>2 DEF RingsType
    <3>2. ring[s].buf[ring[s].tail] \in Byte
      BY <3>1, RingFacts
    <3> DEFINE b == ring[s].buf[ring[s].tail]
    <3> HIDE DEF b
    <3>3. b \in Byte => <<b>> \in Seq(Byte) /\ <<>> \in Seq(Byte)
      OBVIOUS
    <3>4. e \in Seq(Byte)
      BY <3>2, <3>3 DEF b
    <3> QED
      BY <2>2, <3>1, <3>4, ContentsIs, CodeType, WaitingType
  <2>4. InRing(s) = (a \o n) \o e
    BY DEF LInv, RingIsFifo, InRing
  <2>5. IsSubSeqOf((((a \o n) \o e) \o g) \o w, k)
    BY <2>1, <2>4, Zenon DEF Conveys, Destined
  <2> HIDE DEF a, n, e, g, w, k
  <2> DEFINE an == a \o n
             ane == an \o e
             aneg == ane \o g
  <2>6. an \in Seq(Byte)
    BY <2>3
  <2> HIDE DEF an
  <2>7. ane \in Seq(Byte)
    BY <2>3, <2>6
  <2> HIDE DEF ane
  <2>8. aneg \in Seq(Byte)
    BY <2>3, <2>7
  <2>9. IsSubSeqOf(aneg \o w, k)
    BY <2>5 DEF aneg, ane, an
  <2> HIDE DEF aneg
  <2>10. IsSubSeqOf(aneg, k)
    BY <2>3, <2>8, <2>9, FrontOfSubSeq
  <2>11. IsSubSeqOf(ane \o g, k)
    BY <2>10 DEF aneg
  <2>12. IsSubSeqOf(ane, k)
    BY <2>3, <2>7, <2>11, FrontOfSubSeq
  <2>13. IsSubSeqOf(an \o e, k)
    BY <2>12 DEF ane
  <2>14. IsSubSeqOf(an, k)
    BY <2>3, <2>6, <2>13, FrontOfSubSeq
  <2>15. IsSubSeqOf(a \o n, k)
    BY <2>14 DEF an
  <2>16. IsSubSeqOf(a, k)
    BY <2>3, <2>15, FrontOfSubSeq
  <2> QED
    BY <2>16 DEF a, k
<1> QED
  BY <1>1, DownInductive, PTL

-----------------------------------------------------------------------------
(* The registry on its way to the host.                                    *)

\* What is left of the registry record after its first bytes
LenHi == Len(RegistryJson) \div (ByteMax + 1)
LenLo == Len(RegistryJson) % (ByteMax + 1)
FromLenLo   == <<LenLo>> \o RegistryJson
FromLenHi   == <<LenHi>> \o FromLenLo
FromType    == <<STREAM_REGISTRY>> \o FromLenHi
FromControl == <<CONTROL>> \o FromType
FromEscape  == <<ESC>> \o FromControl

\* The parser of the host has still to read w of the registry.
Awaits(w) ==
    \/ control_state = "IDLE" /\ ~in_escape /\ w = FromEscape
    \/ control_state = "IDLE" /\ in_escape /\ w = FromControl
    \/ control_state = "CMD" /\ ~in_escape /\ w = FromType
    \/ control_state = "REGISTRY_LEN_HI" /\ ~in_escape /\ w = FromLenHi
    \/ /\ control_state = "REGISTRY_LEN_LO" /\ ~in_escape /\ w = FromLenLo
       /\ control_registry_len = LenHi * (ByteMax + 1)
    \/ /\ control_state = "REGISTRY_JSON" /\ ~in_escape /\ w # <<>>
       /\ control_registry_len = Len(RegistryJson)
       /\ w \in Seq(Byte) /\ control_registry_json \o w = RegistryJson

\* The registry is sent, and there is one; the host has memory for it.
RegistrySent == RegistryFits /\ RegistryJson # <<>> /\ "alloc" \notin Faults

\* Its bytes
LEMMA RegistryBytes ==
    ASSUME RegistryFits
    PROVE  /\ RegistryJson \in Seq(Byte) /\ LenHi \in Byte /\ LenLo \in Byte
           /\ LenHi * (ByteMax + 1) + LenLo = Len(RegistryJson)
           /\ FromLenLo \in Seq(Byte) /\ FromLenHi \in Seq(Byte) /\ FromType \in Seq(Byte)
           /\ FromControl \in Seq(Byte) /\ FromEscape \in Seq(Byte)
           /\ EncodeRegistry(RegistryJson) = FromEscape
<1> DEFINE n == Len(RegistryJson)
           m == ByteMax + 1
<1>1. RegistryJson \in Seq(Byte) /\ n \in Nat /\ n < m * m /\ m \in Nat \ {0}
  BY MuxAssumption, MuxBytes DEF RegistryFits
<1>2. LenHi \in Byte
  <2>1. n \div m \in 0..(m - 1)
    BY <1>1, HighDigit
  <2>2. m - 1 = ByteMax
    BY MuxBytes
  <2> QED
    BY <2>1, <2>2 DEF LenHi, Byte
<1>3. LenLo \in Byte
  BY <1>1, MuxBytes DEF LenLo, Byte
<1>4. LenHi * m + LenLo = n
  BY <1>1, Digits DEF LenHi, LenLo
<1>5. FromLenLo \in Seq(Byte)
  BY <1>1, <1>3, OneInTurn DEF FromLenLo
<1>6. FromLenHi \in Seq(Byte)
  BY <1>2, <1>5, OneInTurn DEF FromLenHi
<1>7. FromType \in Seq(Byte)
  BY <1>6, OneInTurn, MuxBytes DEF FromType
<1>8. FromControl \in Seq(Byte)
  BY <1>7, OneInTurn, MuxBytes DEF FromControl
<1>9. FromEscape \in Seq(Byte)
  BY <1>8, OneInTurn, MuxBytes DEF FromEscape
<1>10. EncodeRegistry(RegistryJson) = FromEscape
  <2> DEFINE a == <<ESC, CONTROL, STREAM_REGISTRY>>
             l == <<LenHi, LenLo>>
             t == RegistryJson
  <2>1. a \in Seq(Byte) /\ l \in Seq(Byte) /\ t \in Seq(Byte)
    BY <1>1, <1>2, <1>3, MuxBytes
  <2>2. EncodeRegistry(RegistryJson) = (a \o l) \o t
    BY DEF EncodeRegistry, LenBytes, LenHi, LenLo
  <2>3. (a \o l) \o t = a \o (l \o t)
    <3> HIDE DEF a, l, t
    <3>1. Joins(a, l, t)
      BY <2>1, ByteJoins
    <3> QED
      BY <3>1, Zenon DEF Joins
  <2>4. l \o t = FromLenHi
    BY <1>1, <1>2, <1>3, TwoInTurn DEF FromLenHi, FromLenLo
  <2>5. a \o FromLenHi = FromEscape
    <3>1. ESC \in Byte /\ CONTROL \in Byte /\ STREAM_REGISTRY \in Byte
      BY MuxBytes
    <3> QED
      BY <1>6, <3>1, ThreeInTurn, Zenon DEF Threefold, FromEscape, FromControl, FromType
  <2> QED
    BY <2>2, <2>3, <2>4, <2>5, Zenon
<1> QED
  BY <1>1, <1>2, <1>3, <1>4, <1>5, <1>6, <1>7, <1>8, <1>9, <1>10

\* There is always a byte to be read.
LEMMA AwaitsBytes ==
    ASSUME RegistryFits, NEW w, Awaits(w)
    PROVE  w \in Seq(Byte) /\ w # <<>>
<1>1. ASSUME NEW a \in Byte, NEW s \in Seq(Byte) PROVE <<a>> \o s # <<>>
  BY <1>1, FirstOf
<1>2. FromLenLo # <<>> /\ FromLenHi # <<>> /\ FromType # <<>> /\ FromControl # <<>> /\ FromEscape # <<>>
  BY <1>1, RegistryBytes, MuxBytes DEF FromLenLo, FromLenHi, FromType, FromControl, FromEscape
<1> QED
  BY <1>2, RegistryBytes DEF Awaits

\* feed_virtioso_byte reads a byte of the registry: it moves on in the record, or
\* applies it when it is complete.
LEMMA RegistryByte ==
    ASSUME RegistrySent, TypeOK, alive, virtioso_registry_json = <<>>,
           NEW w, Awaits(w), NEW o, FeedVirtiosoByte(Head(w), o)
    PROVE  /\ UNCHANGED cur_rx_stream /\ out' = o
           /\ \/ /\ UNCHANGED <<alive, virtioso_registry_json, table>>
                 /\ Tail(w) # <<>> /\ Awaits(Tail(w))'
              \/ /\ Tail(w) = <<>> /\ virtioso_registry_json' = RegistryJson
                 /\ alive' => control_state' = "IDLE" /\ ~in_escape'
<1> DEFINE ch == Head(w)
<1>0. RegistryFits /\ RegistryJson # <<>> /\ "alloc" \notin Faults
  BY DEF RegistrySent
<1>1. /\ FromLenLo \in Seq(Byte) /\ FromLenHi \in Seq(Byte) /\ FromType \in Seq(Byte)
      /\ FromControl \in Seq(Byte) /\ FromEscape \in Seq(Byte) /\ RegistryJson \in Seq(Byte)
      /\ LenHi \in Byte /\ LenLo \in Byte /\ LenHi * (ByteMax + 1) + LenLo = Len(RegistryJson)
  BY <1>0, RegistryBytes
<1>2. w \in Seq(Byte) /\ w # <<>>
  BY <1>0, AwaitsBytes
<1>3. in_escape \in BOOLEAN /\ control_registry_json \in Seq(Byte)
  BY DEF TypeOK
<1>4. /\ FromControl # <<>> /\ FromType # <<>> /\ FromLenHi # <<>> /\ FromLenLo # <<>>
  BY <1>1, MuxBytes, FirstOf DEF FromControl, FromType, FromLenHi, FromLenLo
<1>5. CASE control_state = "IDLE" /\ ~in_escape /\ w = FromEscape
  <2>1. ch = ESC /\ Tail(w) = FromControl
    BY <1>1, <1>5, MuxBytes, FirstOf DEF FromEscape
  <2>2. EscapeStart(ch, o)
    BY <1>5, <2>1, FramingBranch
  <2> QED
    BY <1>4, <1>5, <2>1, <2>2 DEF EscapeStart, Awaits, control
<1>6. CASE control_state = "IDLE" /\ in_escape /\ w = FromControl
  <2>1. ch = CONTROL /\ Tail(w) = FromType
    BY <1>1, <1>6, MuxBytes, FirstOf DEF FromControl
  <2>2. EscapeControl(ch, o)
    BY <1>6, <2>1, FramingBranch
  <2> QED
    BY <1>4, <1>6, <2>1, <2>2 DEF EscapeControl, Awaits
<1>7. CASE control_state = "CMD" /\ ~in_escape /\ w = FromType
  <2>1. ch = STREAM_REGISTRY /\ Tail(w) = FromLenHi
    BY <1>1, <1>7, MuxBytes, FirstOf DEF FromType
  <2>2. ControlCommand(ch, o)
    BY <1>7, RecordBranch
  <2>3. /\ control_state' = "REGISTRY_LEN_HI" /\ out' = o
        /\ UNCHANGED <<alive, parser, virtioso_registry_json, table>>
    BY <2>1, <2>2 DEF ControlCommand, STREAM_REGISTRY, DOWNLINK_ACK, STREAM_CONNECTED,
                      STREAM_DISCONNECTED
  <2> QED
    BY <1>4, <1>7, <2>1, <2>3 DEF Awaits, parser
<1>8. CASE control_state = "REGISTRY_LEN_HI" /\ ~in_escape /\ w = FromLenHi
  <2>1. ch = LenHi /\ Tail(w) = FromLenLo
    BY <1>1, <1>8, FirstOf DEF FromLenHi
  <2>2. ControlLenHi(ch, o)
    BY <1>8, RecordBranch
  <2>3. /\ control_state' = "REGISTRY_LEN_LO" /\ control_registry_len' = LenHi * (ByteMax + 1)
        /\ out' = o /\ UNCHANGED <<alive, parser, virtioso_registry_json, table>>
    BY <1>8, <2>1, <2>2 DEF ControlLenHi
  <2> QED
    BY <1>4, <1>8, <2>1, <2>3 DEF Awaits, parser
<1>9. CASE /\ control_state = "REGISTRY_LEN_LO" /\ ~in_escape /\ w = FromLenLo
           /\ control_registry_len = LenHi * (ByteMax + 1)
  <2>1. ch = LenLo /\ Tail(w) = RegistryJson
    BY <1>1, <1>9, FirstOf DEF FromLenLo
  <2>2. ControlLenLo(ch, o)
    BY <1>9, RecordBranch
  <2>3. control_registry_len' = Len(RegistryJson) /\ Len(RegistryJson) # 0
    BY <1>0, <1>1, <1>9, <2>1, <2>2, EmptySeq DEF ControlLenLo
  <2>4. /\ control_state' = "REGISTRY_JSON" /\ control_registry_json' = <<>>
        /\ out' = o /\ UNCHANGED <<alive, parser, virtioso_registry_json, table>>
    BY <1>0, <1>9, <2>2, <2>3 DEF ControlLenLo
  <2>5. <<>> \o RegistryJson = RegistryJson
    BY <1>1
  <2> QED
    BY <1>0, <1>1, <1>9, <2>1, <2>3, <2>4, <2>5 DEF Awaits, parser
<1>10. CASE /\ control_state = "REGISTRY_JSON" /\ ~in_escape
            /\ control_registry_len = Len(RegistryJson)
            /\ control_registry_json \o w = RegistryJson
  <2> DEFINE g == control_registry_json
             t == Tail(w)
  <2>1. ch \in Byte /\ t \in Seq(Byte) /\ w = <<ch>> \o t
    BY <1>2, HeadAndTail
  <2>2. Append(g, ch) \in Seq(Byte) /\ Append(g, ch) \o t = RegistryJson
    <3>1. Append(g, ch) = g \o <<ch>> /\ <<ch>> \in Seq(Byte)
      BY <1>3, <2>1, AppendIsConcat
    <3> DEFINE e == <<ch>>
    <3>2. e \in Seq(Byte) /\ g \o (e \o t) = RegistryJson
      BY <1>10, <2>1, <3>1
    <3> HIDE DEF e
    <3>3. Joins(g, e, t)
      BY <1>3, <2>1, <3>2, ByteJoins
    <3> QED
      BY <3>1, <3>2, <3>3, Zenon DEF Joins, e
  <2>3. Len(RegistryJson) = Len(g) + 1 + Len(t) /\ Len(g) \in Nat /\ Len(t) \in Nat
    <3>1. Len(RegistryJson) = Len(g) + Len(w)
      BY <1>2, <1>3, <1>10, LenOfConcat, Zenon
    <3>2. Len(w) = 1 + Len(t)
      BY <1>2, EmptySeq
    <3> QED
      BY <1>3, <2>1, <3>1, <3>2
  <2>4. LastByte <=> t = <<>>
    <3>1. t = <<>> <=> Len(t) = 0
      BY <2>1, EmptySeq
    <3> HIDE DEF t, g
    <3>2. Len(g) + 1 >= Len(RegistryJson) <=> Len(t) = 0
      BY <2>3
    <3> QED
      BY <1>10, <3>1, <3>2 DEF LastByte, g
  <2>5. ControlPayload(ch, o) \/ ControlRegistry(ch, o)
    BY <1>10, RecordBranch
  <2> HIDE DEF t
  <2>6. CASE t # <<>>
    <3>1. /\ control_registry_json' = Append(g, ch) /\ out' = o
          /\ UNCHANGED <<alive, parser, control_state, control_registry_len,
                         virtioso_registry_json, table>>
      BY <2>4, <2>5, <2>6 DEF ControlPayload, ControlRegistry
    <3> QED
      BY <1>10, <2>1, <2>2, <2>6, <3>1 DEF Awaits, parser, t
  <2>7. CASE t = <<>>
    <3>1. Append(g, ch) = RegistryJson
      BY <2>2, <2>7
    <3>2. ControlRegistry(ch, o)
      BY <2>4, <2>5, <2>7 DEF ControlPayload
    <3>3. /\ virtioso_registry_json' = RegistryJson /\ out' = o /\ UNCHANGED parser
          /\ control_state' = IF alive' THEN "IDLE" ELSE control_state
      BY <3>1, <3>2 DEF ControlRegistry
    <3> QED
      BY <1>10, <2>7, <3>3 DEF parser, t
  <2> QED
    BY <2>6, <2>7
<1> QED
  BY <1>5, <1>6, <1>7, <1>8, <1>9, <1>10 DEF Awaits

-----------------------------------------------------------------------------
(* What is on its way to the host.                                         *)

\* The bytes the Mux has passed to the UART and those it is about to
Sent == uart_tx \o FlattenSeq(frames)

\* They are bytes.
LEMMA SentType ==
    ASSUME UplinkType, UartType
    PROVE  frames \in Seq(Seq(Byte)) /\ FlattenSeq(frames) \in Seq(Byte) /\ Sent \in Seq(Byte)
<1>1. frames \in Seq(Seq(Byte)) /\ uart_tx \in Seq(Byte)
  BY DEF UplinkType, UartType, Framed
<1> DEFINE f == FlattenSeq(frames)
<1>2. f \in Seq(Byte)
  BY <1>1, FlattenType
<1> HIDE DEF f
<1>3. uart_tx \o f \in Seq(Byte)
  BY <1>1, <1>2
<1> QED
  BY <1>1, <1>2, <1>3 DEF Sent, f

\* A sequence that begins with a byte begins with it after anything is added.
LEMMA BeginsWith ==
    ASSUME NEW a \in Seq(Byte), a # <<>>, NEW b \in Seq(Byte)
    PROVE  /\ a \o b \in Seq(Byte) /\ a \o b # <<>>
           /\ Head(a \o b) = Head(a) /\ Tail(a \o b) = Tail(a) \o b
<1> DEFINE h == <<Head(a)>>
           t == Tail(a)
           tb == t \o b
<1>1. Head(a) \in Byte /\ t \in Seq(Byte) /\ a = h \o t /\ h \in Seq(Byte)
  BY HeadAndTail
<1>2. tb \in Seq(Byte)
  BY <1>1
<1>3. a \o b = h \o tb
  <2> HIDE DEF h, t
  <2>1. Joins(h, t, b)
    BY <1>1, ByteJoins
  <2> QED
    BY <1>1, <2>1, Zenon DEF Joins
<1> QED
  BY <1>1, <1>2, <1>3, FirstOf

\* Passing a byte to the UART does not change what is sent.
LEMMA PutKeepsSent ==
    ASSUME UplinkType, UartType, PutUplink
    PROVE  Sent' = Sent
<1> DEFINE f == Head(frames)
           h == <<Head(f)>>
           t == Tail(f)
           r == FlattenSeq(Tail(frames))
           n == FlattenSeq(frames')
<1>1. /\ frames # <<>> /\ uart_tx' = Append(uart_tx, Head(f))
      /\ frames' = IF Len(f) = 1 THEN Tail(frames) ELSE <<t>> \o Tail(frames)
  BY DEF PutUplink
<1>2. /\ frames \in Seq(Seq(Byte)) /\ uart_tx \in Seq(Byte) /\ f \in Seq(Byte) /\ f # <<>>
      /\ Tail(frames) \in Seq(Seq(Byte))
  BY <1>1, FramedTail DEF UplinkType, UartType, Framed
<1>3. /\ Head(f) \in Byte /\ t \in Seq(Byte) /\ f = h \o t /\ h \in Seq(Byte)
      /\ Len(f) = 1 => t = <<>>
  BY <1>2, HeadAndTail
<1>4. r \in Seq(Byte) /\ FlattenSeq(frames) = f \o r
  BY <1>1, <1>2, FlattenType, FlattenFirst
<1>5. n = t \o r
  <2>1. CASE Len(f) = 1
    <3>1. frames' = Tail(frames) /\ t = <<>>
      BY <1>1, <1>3, <2>1
    <3> HIDE DEF t
    <3>2. <<>> \o r = r
      BY <1>4
    <3> QED
      BY <3>1, <3>2
  <2>2. CASE Len(f) # 1
    <3>1. frames' = <<t>> \o Tail(frames)
      BY <1>1, <2>2
    <3> HIDE DEF t
    <3>2. <<t>> \in Seq(Seq(Byte)) /\ FlattenSeq(<<t>>) = t
      BY <1>3, FlattenSingle
    <3>3. FlattenSeq(<<t>> \o Tail(frames)) = FlattenSeq(<<t>>) \o FlattenSeq(Tail(frames))
      BY <1>2, <3>2, FlattenConcat, Zenon
    <3> QED
      BY <3>1, <3>2, <3>3, Zenon
  <2> QED
    BY <2>1, <2>2
<1>6. uart_tx' = uart_tx \o h
  BY <1>1, <1>2, <1>3, AppendIsConcat
<1> HIDE DEF f, h, t, r, n
<1> DEFINE tr == t \o r
<1>7. Joins(h, t, r)
  BY <1>3, <1>4, ByteJoins
<1>8. tr \in Seq(Byte) /\ FlattenSeq(frames) = h \o tr
  BY <1>3, <1>4, <1>7, Zenon DEF Joins
<1> HIDE DEF tr
<1>9. Joins(uart_tx, h, tr)
  BY <1>2, <1>3, <1>8, ByteJoins
<1>10. Sent' = (uart_tx \o h) \o tr
  BY <1>5, <1>6 DEF Sent, n, tr
<1> QED
  BY <1>8, <1>9, <1>10, Zenon DEF Joins, Sent

\* The host reads the first byte of what is sent.
LEMMA HostTakesFirst ==
    ASSUME UplinkType, UartType, HostReceives
    PROVE  /\ Sent # <<>> /\ Head(uart_tx) = Head(Sent) /\ Sent' = Tail(Sent)
           /\ Feed(Head(Sent))
           /\ UNCHANGED <<uplinkThread, downlinkThread, receivers, uart_rx, flushing, hdvars, history>>
<1>1. /\ uart_tx # <<>> /\ uart_tx' = Tail(uart_tx) /\ Feed(Head(uart_tx))
      /\ UNCHANGED <<uplinkThread, downlinkThread, receivers, uart_rx, flushing, hdvars, history>>
  BY DEF HostReceives
<1>2. uart_tx \in Seq(Byte) /\ FlattenSeq(frames) \in Seq(Byte) /\ frames' = frames
  BY <1>1, SentType DEF UartType, uplinkThread
<1> DEFINE f == FlattenSeq(frames)
<1> HIDE DEF f
<1>3. f \in Seq(Byte) /\ Sent = uart_tx \o f /\ Sent' = Tail(uart_tx) \o f
  BY <1>1, <1>2 DEF Sent, f
<1>4. Sent # <<>> /\ Head(Sent) = Head(uart_tx) /\ Tail(Sent) = Tail(uart_tx) \o f
  BY <1>1, <1>2, <1>3, BeginsWith
<1> QED
  BY <1>1, <1>3, <1>4

\* A payload has a frame at least.
LEMMA SomeFrame ==
    ASSUME NEW id \in Byte, NEW bytes \in Seq(Byte)
    PROVE  /\ PayloadFrames(id, bytes) \in Seq(Seq(Byte))
           /\ FlattenSeq(PayloadFrames(id, bytes)) \in Seq(Byte)
           /\ FlattenSeq(PayloadFrames(id, bytes)) # <<>>
<1> DEFINE fs == FoldLeft(LAMBDA acc, byte : AddByte(id, acc, byte), << <<ESC, id>> >>, bytes)
           p == PayloadFrames(id, bytes)
<1>1. fs \in Begun
  BY CollectFits
<1>2. p = AddEnd(fs) /\ p \in Framed
  BY PayloadFits DEF PayloadFrames
<1> HIDE DEF fs
<1>3. p # <<>>
  <2>1. fs \in Seq(Seq(Byte)) /\ fs # <<>> /\ Len(fs) \in Nat /\ Len(fs) > 0
    BY <1>1 DEF Begun
  <2> DEFINE e == <<ESC, DEFAULT>>
             x == fs[Len(fs)] \o e
  <2>2. AddEnd(fs) = Append(fs, e) \/ AddEnd(fs) = [fs EXCEPT ![Len(fs)] = x]
    BY DEF AddEnd
  <2> HIDE DEF e, x
  <2>3. Append(fs, e) # <<>>
    <3>1. e \in Seq(Byte)
      BY MuxBytes DEF e
    <3>2. Len(Append(fs, e)) = Len(fs) + 1 /\ Len(<<>>) = 0
      BY <2>1, <3>1
    <3>3. Len(Append(fs, e)) # Len(<<>>)
      BY <2>1, <3>2
    <3> QED
      BY <3>3
  <2>4. [fs EXCEPT ![Len(fs)] = x] # <<>>
    <3>1. DOMAIN [fs EXCEPT ![Len(fs)] = x] = 1..Len(fs) /\ DOMAIN <<>> = 1..0
      BY <2>1
    <3>2. Len(fs) \in 1..Len(fs) /\ Len(fs) \notin 1..0
      BY <2>1
    <3> QED
      BY <3>1, <3>2
  <2> QED
    BY <1>2, <2>2, <2>3, <2>4
<1> HIDE DEF p
<1>4. p \in Seq(Seq(Byte)) /\ FlattenSeq(p) = Head(p) \o FlattenSeq(Tail(p))
  BY <1>2, <1>3, FlattenFirst DEF Framed
<1>5. Head(p) \in Seq(Byte) /\ Head(p) # <<>> /\ FlattenSeq(Tail(p)) \in Seq(Byte)
  BY <1>2, <1>3, FramedTail, FlattenType DEF Framed
<1> DEFINE r == FlattenSeq(Tail(p))
<1> HIDE DEF r
<1>6. Head(p) \o r \in Seq(Byte) /\ Head(p) \o r # <<>>
  BY <1>5, BeginsWith DEF r
<1> QED
  BY <1>4, <1>6 DEF p, r

-----------------------------------------------------------------------------
(* The registry is ahead of everything else.                               *)

\* The host has only its built-in streams, and nobody can write to the target.
NotYet == virtioso_registry_json = <<>> /\ num_proc = BuiltinCount /\ ack = <<>>

\* Nothing has been sent.
Silent ==
    /\ NotYet /\ ~registry_emitted /\ frames = <<>> /\ uart_tx = <<>>
    /\ control_state = "IDLE" /\ ~in_escape

\* The registry is being read, with something behind it; or the thread that read
\* it has ended, and leaves something unread.
Coming ==
    /\ NotYet /\ registry_emitted /\ Sent # <<>>
    /\ alive => \E w \in Seq(Byte), d \in Seq(Byte) \ {<<>>} : Awaits(w) /\ Sent = w \o d

RegInv ==
    /\ serving = NoClient => frames = <<>>
    /\ Clean => Silent \/ Coming \/ virtioso_registry_json = RegistryJson

\* What was typed or cut stays so.
LEMMA CleanThen ==
    ASSUME keyed \in [PtyIdx -> Seq(Byte)], [LNext]_lvars, Clean'
    PROVE  Clean
<1>0. Physical \subseteq PtyIdx
  BY MaxPtyAssumption DEF Physical, PtyIdx, RAW_CCPLEX, PHYSICAL_UART_DEFAULT
<1>1. CASE UNCHANGED <<cut, keyed>>
  BY <1>1 DEF Clean
<1>2. ASSUME NEW i \in TypeInto, NEW b \in TypeBytes, UserTypes(i, b) PROVE Clean
  <2>1. cut' = cut /\ keyed' = [keyed EXCEPT ![i] = Append(@, b)]
    BY <1>2 DEF UserTypes, Type
  <2>2. i \in PtyIdx /\ keyed[i] \in Seq(Byte) /\ b \in Byte
    BY LinkAssumption
  <2>3. Append(keyed[i], b) # <<>>
    BY <2>2
  <2> QED
    BY <1>0, <2>1, <2>2, <2>3 DEF Clean
<1>3. ASSUME NEW i \in PtyIdx, HostWrites(i) PROVE Clean
  <2>1. UNCHANGED keyed /\ (cut => cut')
    BY <1>3 DEF HostWrites, PtyThread, ReadPty, LockTty, WriteFragment, UnlockTty, history
  <2> QED
    BY <2>1 DEF Clean
<1>4. CASE HostReopens
  BY <1>1, <1>4 DEF HostReopens, ReopenTty, PutGreeting
<1>5. CASE HostReceives \/ LinkDown
  BY <1>1, <1>5 DEF HostReceives, LinkDown, hdvars, history
<1>6. ASSUME \/ \E c \in MuxClients, b \in PutBytes : GuestPrints(c, b)
             \/ \E c \in MuxClients : SinkReturns(c)
             \/ MuxUplinkStep \/ MuxIrqStep \/ \E s \in DemuxSinks : ReceiverStep(s)
      PROVE  Clean
  BY <1>1, <1>6 DEF GuestPrints, SinkReturns, MuxUplinkStep, MuxIrqStep, ReceiverStep, hdvars, history
<1>7. CASE UNCHANGED lvars
  BY <1>1, <1>7 DEF lvars, hdvars, history
<1> QED
  BY <1>2, <1>3, <1>4, <1>5, <1>6, <1>7 DEF LNext

\* A step that concerns neither the uplink nor the acknowledgements
LEMMA RegUnchanged ==
    ASSUME RegInv, Clean' => Clean, UNCHANGED vars,
           UNCHANGED <<serving, frames, registry_emitted, uart_tx, ack>>
    PROVE  RegInv'
<1>1. /\ UNCHANGED <<alive, in_escape, control_state, control_registry_len, control_registry_json>>
      /\ UNCHANGED <<virtioso_registry_json, num_proc>>
  BY DEF vars, parser, control, table
<1>2. Sent' = Sent /\ \A w : Awaits(w)' <=> Awaits(w)
  BY <1>1 DEF Sent, Awaits
<1>3. Coming => Coming'
  BY <1>1, <1>2 DEF Coming, NotYet
<1>4. Silent => Silent'
  BY <1>1 DEF Silent, NotYet
<1> QED
  BY <1>1, <1>3, <1>4 DEF RegInv

\* Without a registry the Mux has no stream to acknowledge.
LEMMA NobodyAddressed ==
    ASSUME LInv, DownInv, Clean, num_proc = BuiltinCount
    PROVE  rx_stream = -1
<1>1. PICK q \in Seq(Item), c \in Byte \ {ESC} : Conveys(q, c)
  BY DEF DownInv, OnLink
<1>2. TableShape
  BY DEF LInv, IInv, DemuxInv, TableInv
<1>3. ASSUME NEW i \in Registered PROVE tags[i].value = 0
  <2>1. i < BuiltinCount
    BY DEF Registered, BuiltinCount
  <2> QED
    BY <1>2, <2>1 DEF TableShape
<1>4. c = 0
  BY <1>1, <1>3 DEF Conveys, Addressees
<1>5. 0 \notin DemuxSinks
  BY MuxBytes
<1> QED
  BY <1>1, <1>4, <1>5 DEF Conveys

\* The interrupt thread
LEMMA IrqReg ==
    ASSUME LInv, DownInv, RegInv, Clean' => Clean, MuxIrqStep
    PROVE  RegInv'
<1>1. (IrqThread /\ UNCHANGED <<vars, uplinkThread, uart_tx>>) \/ (PutAck /\ UNCHANGED <<vars, uplinkThread>>)
  BY DEF MuxIrqStep, IrqThread, FeedDownlinkByte, PublishByte, PutAck
<1>2. UNCHANGED vars /\ UNCHANGED <<serving, frames, registry_emitted>>
  BY <1>1 DEF uplinkThread
<1>3. CASE PublishByte
  <2>1. UNCHANGED <<uart_tx, ack>>
    BY <1>3 DEF PublishByte
  <2> QED
    BY <1>2, <2>1, RegUnchanged
<1>4. CASE PutAck
  <2>1. ~NotYet
    BY <1>4 DEF PutAck, NotYet
  <2>2. virtioso_registry_json' = virtioso_registry_json
    BY <1>2 DEF vars
  <2> QED
    BY <1>2, <2>1, <2>2 DEF RegInv, Silent, Coming
<1>5. CASE FeedDownlinkByte
  <2>1. UNCHANGED uart_tx /\ ack = <<>>
    BY <1>5 DEF FeedDownlinkByte, IrqIdle
  <2>2. CASE Clean /\ num_proc = BuiltinCount
    <3>1. rx_stream = -1 /\ -1 \notin ValidStreamId
      BY <2>2, NobodyAddressed DEF ValidStreamId
    <3>2. ack' = <<>>
      BY <1>5, <2>1, <3>1 DEF FeedDownlinkByte, DownlinkDefault, DownlinkEscape, DownlinkStream,
                              DownlinkEscapeStart, DownlinkPayload
    <3> QED
      BY <1>2, <2>1, <3>2, RegUnchanged
  <2>3. CASE Clean /\ num_proc # BuiltinCount
    <3>1. ~NotYet
      BY <2>3 DEF NotYet
    <3>2. virtioso_registry_json' = virtioso_registry_json
      BY <1>2 DEF vars
    <3> QED
      BY <1>2, <2>3, <3>1, <3>2 DEF RegInv, Silent, Coming
  <2>4. CASE ~Clean
    BY <1>2, <2>4 DEF RegInv
  <2> QED
    BY <2>2, <2>3, <2>4
<1> QED
  BY <1>3, <1>4, <1>5 DEF MuxIrqStep, IrqThread

\* The thread of mux_batch: before the first frame it sends the registry.
LEMMA UplinkReg ==
    ASSUME RegistrySent, LInv, RegInv, Clean' => Clean, MuxUplinkStep
    PROVE  RegInv'
<1>0. UplinkType /\ UartType /\ UplinkThread /\ UNCHANGED vars
  BY MuxParts DEF MuxUplinkStep
<1>1. /\ UNCHANGED <<alive, in_escape, control_state, control_registry_len, control_registry_json>>
      /\ UNCHANGED <<virtioso_registry_json, num_proc>>
  BY <1>0 DEF vars, parser, control, table
<1>2. \A w : Awaits(w)' <=> Awaits(w)
  BY <1>1 DEF Awaits
<1>3. CASE PutUplink
  <2>1. frames # <<>> /\ UNCHANGED <<serving, registry_emitted, ack>>
    BY <1>3 DEF PutUplink, downlinkThread
  <2>2. Sent' = Sent
    BY <1>0, <1>3, PutKeepsSent
  <2>3. Coming => Coming'
    BY <1>1, <1>2, <2>1, <2>2 DEF Coming, NotYet
  <2>4. serving' # NoClient /\ ~Silent
    BY <2>1 DEF RegInv, Silent
  <2> QED
    BY <1>1, <2>3, <2>4 DEF RegInv
<1>4. CASE MuxReturn
  <2>1. frames = <<>> /\ UNCHANGED <<frames, registry_emitted, uart_tx, ack>>
    BY <1>4 DEF MuxReturn, downlinkThread
  <2>2. Sent' = Sent
    BY <2>1 DEF Sent
  <2>3. Coming => Coming'
    BY <1>1, <1>2, <2>1, <2>2 DEF Coming, NotYet
  <2>4. Silent => Silent'
    BY <1>1, <2>1 DEF Silent, NotYet
  <2> QED
    BY <1>1, <2>1, <2>3, <2>4 DEF RegInv
<1>5. ASSUME NEW c \in MuxClients, MuxBatch(c) PROVE RegInv'
  <2>1. serving = NoClient /\ frames = <<>> /\ UNCHANGED <<uart_tx, ack>>
    BY <1>5 DEF MuxBatch, RegInv, downlinkThread
  <2>2. CASE ~Accepted(batch[c])
    <3>1. UNCHANGED <<serving, frames, registry_emitted>>
      BY <1>5, <2>2 DEF MuxBatch
    <3> QED
      BY <1>0, <2>1, <3>1, RegUnchanged
  <2>3. CASE Accepted(batch[c])
    <3> DEFINE p == PayloadFrames(batch[c].stream_id, batch[c].staged)
               d == FlattenSeq(p)
    <3>1. /\ serving' = c /\ frames' = RegistryFrames \o p /\ registry_emitted' = TRUE
          /\ c # NoClient
      BY <1>5, <2>3, MuxAssumption DEF MuxBatch
    <3>2. batch[c].stream_id \in Byte /\ batch[c].staged \in Seq(Byte)
      BY <1>0 DEF UplinkType
    <3>3. p \in Seq(Seq(Byte)) /\ d \in Seq(Byte) /\ d # <<>>
      BY <3>2, SomeFrame
    <3> HIDE DEF p
    <3>4. CASE Clean /\ Silent
      <4>1. RegistryFrames = <<FromEscape>> /\ FromEscape \in Seq(Byte)
        BY <3>4, RegistryBytes DEF RegistryFrames, Silent, RegistrySent
      <4> HIDE DEF d
      <4>2. Sent' = FromEscape \o d
        <5>1. <<FromEscape>> \in Seq(Seq(Byte)) /\ FlattenSeq(<<FromEscape>>) = FromEscape
          BY <4>1, FlattenSingle
        <5>2. FlattenSeq(<<FromEscape>> \o p) = FlattenSeq(<<FromEscape>>) \o FlattenSeq(p)
          BY <3>3, <5>1, FlattenConcat, Zenon
        <5>3. FlattenSeq(frames') = FromEscape \o d
          BY <3>1, <4>1, <5>1, <5>2 DEF d
        <5> DEFINE e == FromEscape \o d
        <5>4. e \in Seq(Byte) /\ Sent' = <<>> \o e
          BY <2>1, <3>3, <3>4, <4>1, <5>3 DEF Sent, Silent
        <5> HIDE DEF e
        <5>5. <<>> \o e = e
          BY <5>4
        <5> QED
          BY <5>4, <5>5 DEF e
      <4>3. FromEscape \o d # <<>>
        <5>1. Awaits(FromEscape)
          BY <3>4 DEF Silent, Awaits
        <5>2. FromEscape # <<>>
          BY <5>1, AwaitsBytes DEF RegistrySent
        <5> QED
          BY <3>3, <4>1, <5>2, BeginsWith
      <4>4. Awaits(FromEscape)'
        BY <1>1, <3>4 DEF Silent, Awaits
      <4>5. Coming'
        BY <1>1, <2>1, <3>1, <3>3, <3>4, <4>1, <4>2, <4>3, <4>4 DEF Coming, Silent, NotYet
      <4> QED
        BY <3>1, <4>5 DEF RegInv
    <3>5. CASE Clean /\ Coming
      <4>1. RegistryFrames = <<>>
        BY <3>5 DEF RegistryFrames, Coming
      <4>2. <<>> \o p = p
        BY <3>3
      <4> HIDE DEF d
      <4>3. Sent = uart_tx \o <<>> /\ Sent' = uart_tx \o d
        BY <2>1, <3>1, <4>1, <4>2, FlattenEmpty DEF Sent, d
      <4>4. uart_tx \in Seq(Byte) /\ Sent = uart_tx
        BY <1>0, <4>3 DEF UartType
      <4>5. Sent' # <<>>
        BY <3>3, <3>5, <4>3, <4>4, BeginsWith DEF Coming
      <4>6. ASSUME alive
            PROVE  \E w \in Seq(Byte), e \in Seq(Byte) \ {<<>>} : Awaits(w)' /\ Sent' = w \o e
        <5>1. PICK w \in Seq(Byte), e \in Seq(Byte) \ {<<>>} : Awaits(w) /\ Sent = w \o e
          BY <3>5, <4>6 DEF Coming
        <5>2. Joins(w, e, d)
          BY <3>3, <5>1, ByteJoins
        <5> DEFINE ed == e \o d
        <5>3. ed \in Seq(Byte) /\ ed # <<>>
          BY <3>3, <5>1, BeginsWith
        <5>4. Sent' = w \o ed
          BY <4>3, <4>4, <5>1, <5>2, Zenon DEF Joins
        <5> HIDE DEF ed
        <5> QED
          BY <1>2, <5>1, <5>3, <5>4
      <4>7. Coming'
        BY <1>1, <2>1, <3>1, <3>5, <4>5, <4>6 DEF Coming, NotYet
      <4> QED
        BY <3>1, <4>7 DEF RegInv
    <3>6. CASE ~Clean \/ virtioso_registry_json = RegistryJson
      BY <1>1, <3>1, <3>6 DEF RegInv
    <3> QED
      BY <3>4, <3>5, <3>6 DEF RegInv
  <2> QED
    BY <2>2, <2>3
<1> QED
  BY <1>0, <1>3, <1>4, <1>5 DEF UplinkThread

\* The host reads a byte: of the registry, as long as it has none.
LEMMA HostReg ==
    ASSUME RegistrySent, LInv, RegInv, Clean' => Clean, HostReceives
    PROVE  RegInv'
<1>0. UplinkType /\ UartType /\ TypeOK /\ OuterMode = "raw"
  BY MuxParts, LinkAssumption DEF IInv, DemuxInv
<1>1. /\ Sent # <<>> /\ Sent' = Tail(Sent) /\ Feed(Head(Sent))
      /\ UNCHANGED <<serving, frames, registry_emitted, ack>>
  BY <1>0, HostTakesFirst DEF uplinkThread, downlinkThread
<1>2. alive /\ MirrorAndFeed(Head(Sent))
  BY <1>0, <1>1, MirrorFirst
<1>3. CASE Clean /\ Coming
  <2>1. PICK w \in Seq(Byte), d \in Seq(Byte) \ {<<>>} : Awaits(w) /\ Sent = w \o d
    BY <1>2, <1>3 DEF Coming
  <2>2. w # <<>>
    BY <2>1, AwaitsBytes DEF RegistrySent
  <2>3. Head(Sent) = Head(w) /\ Sent' = Tail(w) \o d /\ Tail(w) \in Seq(Byte)
    BY <1>1, <2>1, <2>2, BeginsWith, HeadAndTail
  <2>4. Sent' # <<>>
    <3>1. CASE Tail(w) = <<>>
      <4>1. <<>> \o d = d
        BY <2>1
      <4> QED
        BY <2>1, <2>3, <3>1, <4>1
    <3>2. CASE Tail(w) # <<>>
      BY <2>1, <2>3, <3>2, BeginsWith
    <3> QED
      BY <3>1, <3>2
  <2>5. CASE FeedVirtiosoByte(Head(w), Mirrored(Head(w)))
    <3>0. virtioso_registry_json = <<>>
      BY <1>3 DEF Coming, NotYet
    <3>1. \/ /\ UNCHANGED <<alive, virtioso_registry_json, table>>
             /\ Awaits(Tail(w))'
          \/ virtioso_registry_json' = RegistryJson
      BY <1>0, <1>2, <2>1, <2>5, <3>0, RegistryByte
    <3>2. CASE UNCHANGED <<alive, virtioso_registry_json, table>> /\ Awaits(Tail(w))'
      <4>1. Coming'
        BY <1>1, <1>3, <2>1, <2>3, <2>4, <3>2 DEF Coming, NotYet, table
      <4> QED
        BY <1>1, <4>1 DEF RegInv
    <3>3. CASE virtioso_registry_json' = RegistryJson
      BY <1>1, <3>3 DEF RegInv
    <3> QED
      BY <3>1, <3>2, <3>3
  <2>6. CASE alive' = FALSE /\ UNCHANGED <<virtioso_registry_json, table>>
    <3>1. Coming'
      BY <1>1, <1>3, <2>4, <2>6 DEF Coming, NotYet, table
    <3> QED
      BY <1>1, <3>1 DEF RegInv
  <2> QED
    BY <1>2, <2>3, <2>5, <2>6 DEF MirrorAndFeed
<1>4. CASE Clean /\ Silent
  <2>1. uart_tx = <<>>
    BY <1>4 DEF Silent
  <2> QED
    BY <2>1 DEF HostReceives
<1>5. CASE Clean /\ virtioso_registry_json = RegistryJson
  <2>1. virtioso_registry_json' = virtioso_registry_json
    <3>1. virtioso_registry_json # <<>>
      BY <1>5 DEF RegistrySent
    <3> QED
      BY <1>2, <3>1 DEF MirrorAndFeed, FeedVirtiosoByte, ControlCommand, ControlLenHi, ControlLenLo,
                        ControlPayload, ControlRegistry, ControlAnnounce, EscapeStart, EscapeDefault,
                        EscapeEscape, EscapeControl, EscapeStream, Payload
  <2> QED
    BY <1>1, <1>5, <2>1 DEF RegInv
<1>6. CASE ~Clean
  BY <1>1, <1>6 DEF RegInv
<1> QED
  BY <1>3, <1>4, <1>5, <1>6 DEF RegInv

\* Nothing is on its way at the start.
LEMMA LInitReg == LInit => RegInv
BY DEF LInit, GSInit, CMInit, Init, InitTty, RegInv, Silent, NotYet

\* Every step keeps it.
LEMMA LNextReg ==
    ASSUME RegistrySent, LInv, DownInv, RegInv, [LNext]_lvars
    PROVE  RegInv'
<1>0. Clean' => Clean
  BY CleanThen DEF DownInv, ThreadsInv
<1>1. ASSUME UNCHANGED vars, UNCHANGED <<serving, frames, registry_emitted, uart_tx, ack>>
      PROVE  RegInv'
  BY <1>0, <1>1, RegUnchanged
<1>2. ASSUME NEW c \in MuxClients, SinkReturns(c) \/ \E b \in PutBytes : GuestPrints(c, b)
      PROVE  RegInv'
  BY <1>1, <1>2 DEF SinkReturns, GuestPrints, FlushDone, Putchar, downlinkThread
<1>3. ASSUME NEW s \in DemuxSinks, ReceiverStep(s) PROVE RegInv'
  BY <1>1, <1>3 DEF ReceiverStep, Receiver, Wake, TakeByte, Sleep, uplinkThread, downlinkThread
<1>4. ASSUME NEW i, NEW b, UserTypes(i, b) PROVE RegInv'
  BY <1>1, <1>4 DEF UserTypes, Type, gsvars, cmvars, uplinkThread, downlinkThread
<1>5. ASSUME NEW i, HostWrites(i) PROVE RegInv'
  BY <1>1, <1>5 DEF HostWrites, PtyThread, ReadPty, LockTty, WriteFragment, UnlockTty,
                    gsvars, cmvars, uplinkThread, downlinkThread
<1>6. CASE HostReopens
  BY <1>1, <1>6 DEF HostReopens, ReopenTty, PutGreeting, gsvars, cmvars, uplinkThread, downlinkThread
<1>7. CASE LinkDown
  BY <1>1, <1>7 DEF LinkDown, uplinkThread, downlinkThread
<1>8. CASE UNCHANGED lvars
  BY <1>1, <1>8 DEF lvars, gsvars, cmvars, uplinkThread, downlinkThread
<1> QED
  BY <1>0, <1>2, <1>3, <1>4, <1>5, <1>6, <1>7, <1>8, UplinkReg, IrqReg, HostReg DEF LNext

\* For every registry that fits the frame buffer and every size of it, whatever
\* the guests print, the users type and the link loses: as long as the host has
\* memory for the registry, no write was short and nobody used the raw UART, the
\* registry is through before anything else is.
THEOREM RegistryIsFirst ==
    ASSUME RegistrySent
    PROVE  LSpec => []((~cut /\ \A i \in Physical : keyed[i] = <<>>) => RegistryFirst)
<1>1. LInit => RegInv
  BY LInitReg
<1>2. LInv /\ DownInv /\ RegInv /\ [LNext]_lvars => RegInv'
  BY LNextReg
<1>3. RegInv => ((~cut /\ \A i \in Physical : keyed[i] = <<>>) => RegistryFirst)
  <2> SUFFICES ASSUME RegInv, Clean, registry_emitted, frames = <<>>, uart_tx = <<>>
               PROVE  virtioso_registry_json = RegistryJson
    BY DEF Clean, RegistryFirst
  <2>1. <<>> \o <<>> = <<>>
    OBVIOUS
  <2>2. Sent = <<>>
    BY <2>1, FlattenEmpty DEF Sent
  <2> QED
    BY <2>2 DEF RegInv, Silent, Coming
<1> QED
  BY <1>1, <1>2, <1>3, DownInductive, PTL DEF LSpec

-----------------------------------------------------------------------------
(* The frames of a payload carry it.                                       *)

\* The bytes w are items that carry d to stream id alone and leave e selected,
\* whatever was selected before them.
Frame(r, w, id, e, d) ==
    /\ Code(r) = w
    /\ \A c : Routed(r, c, e)
    /\ \A j : Given(j, r) = IF j = id THEN d ELSE <<>>
    /\ \A k \in 1..Len(r) : r[k].to \in {id, 0}

\* One item more
LEMMA FrameMore ==
    ASSUME NEW r \in Seq(Item), NEW w \in Seq(Byte), NEW id, NEW d \in Seq(Byte),
           Frame(r, w, id, id, d), NEW x \in Item, x.to \in {id, 0},
           x.byte # SELECT => x.to = id
    PROVE  /\ r \o <<x>> \in Seq(Item)
           /\ Frame(r \o <<x>>, w \o CodeOf[x], id, x.to, d \o DataOf(id)[x])
<1> DEFINE s == <<x>>
<1>1. s \in Seq(Item) /\ Len(s) = 1 /\ s[1] = x
  OBVIOUS
<1>2. Code(s) = CodeOf[x] /\ \A j : Given(j, s) = DataOf(j)[x]
  BY CodeOne
<1>3. Routed(s, id, x.to)
  BY RoutedOne
<1>4. \A j : j # id => DataOf(j)[x] = <<>>
  BY DEF DataOf
<1> HIDE DEF s
<1>5. r \o s \in Seq(Item) /\ Len(r \o s) = Len(r) + 1 /\ Len(r) \in Nat
  <2>1. r \o s \in Seq(Item) /\ Len(r \o s) = Len(r) + Len(s)
    BY <1>1, ConcatProperties
  <2>2. Len(r) \in Nat
    OBVIOUS
  <2> QED
    BY <1>1, <2>1, <2>2
<1>6. Code(r \o s) = w \o CodeOf[x]
  BY <1>1, <1>2, CodeConcat DEF Frame
<1>7. ASSUME NEW c PROVE Routed(r \o s, c, x.to)
  <2>1. Routed(r, c, id)
    BY DEF Frame
  <2> QED
    BY <1>1, <1>3, <2>1, RoutedConcat
<1>8. ASSUME NEW j PROVE Given(j, r \o s) = IF j = id THEN d \o DataOf(id)[x] ELSE <<>>
  <2>1. Given(j, r \o s) = Given(j, r) \o Given(j, s)
    BY <1>1, CodeConcat
  <2>2. Given(j, r) = (IF j = id THEN d ELSE <<>>) /\ Given(j, s) = DataOf(j)[x]
    BY <1>2 DEF Frame
  <2>3. <<>> \o <<>> = <<>>
    OBVIOUS
  <2> QED
    BY <1>4, <2>1, <2>2, <2>3
<1>9. ASSUME NEW k \in 1..Len(r \o s) PROVE (r \o s)[k].to \in {id, 0}
  <2>1. CASE k \in 1..Len(r)
    <3>1. (r \o s)[k] = r[k]
      BY <1>1, <2>1
    <3> QED
      BY <2>1, <3>1 DEF Frame
  <2>2. CASE k = Len(r) + 1
    <3>1. (r \o s)[k] = x
      BY <1>1, <1>5, <2>2
    <3> QED
      BY <3>1
  <2> QED
    BY <1>5, <2>1, <2>2
<1>10. Frame(r \o s, w \o CodeOf[x], id, x.to, d \o DataOf(id)[x])
  BY <1>6, <1>7, <1>8, <1>9, Zenon DEF Frame
<1> QED
  BY <1>5, <1>10 DEF s

\* A sequence with one element more
LEMMA AppendAt ==
    ASSUME NEW S, NEW s \in Seq(S), NEW x \in S, NEW n \in Nat, Len(s) = n - 1
    PROVE  /\ Append(s, x) \in Seq(S) /\ Len(Append(s, x)) = n /\ Append(s, x)[n] = x
           /\ \A k \in 1..(n - 1) : Append(s, x)[k] = s[k]
OBVIOUS

\* A function on the indices is a sequence.
LEMMA MadeSeq ==
    ASSUME NEW S, NEW n \in Nat, NEW f, \A k \in 1..n : f[k] \in S, f = [k \in 1..n |-> f[k]]
    PROVE  f \in Seq(S) /\ Len(f) = n
OBVIOUS

\* A frame that grows
LEMMA FlattenLonger ==
    ASSUME NEW fs \in Seq(Seq(Byte)), fs # <<>>, NEW e \in Seq(Byte)
    PROVE  /\ [fs EXCEPT ![Len(fs)] = @ \o e] \in Seq(Seq(Byte))
           /\ FlattenSeq([fs EXCEPT ![Len(fs)] = @ \o e]) = FlattenSeq(fs) \o e
<1> DEFINE n == Len(fs)
           f == SubSeq(fs, 1, n - 1)
           l == fs[n]
           le == l \o e
           g == [fs EXCEPT ![n] = le]
<1>1. n \in Nat /\ n >= 1 /\ l \in Seq(Byte) /\ DOMAIN fs = 1..n
  OBVIOUS
<1>2. le \in Seq(Byte)
  BY <1>1
<1>3. f \in Seq(Seq(Byte)) /\ Len(f) = n - 1 /\ \A k \in 1..(n - 1) : f[k] = fs[k]
  BY <1>1
<1> HIDE DEF f, l, le, n
<1>4. fs = Append(f, l)
  <2>1. /\ Append(f, l) \in Seq(Seq(Byte)) /\ Len(Append(f, l)) = n /\ Append(f, l)[n] = l
        /\ \A k \in 1..(n - 1) : Append(f, l)[k] = f[k]
    BY <1>1, <1>3, AppendAt
  <2>2. \A k \in 1..n : Append(f, l)[k] = fs[k]
    <3>1. fs[n] = l
      BY DEF l
    <3> QED
      BY <1>1, <1>3, <2>1, <3>1
  <2>3. Len(fs) = n
    BY DEF n
  <2> QED
    BY <2>1, <2>2, <2>3, SeqEqual
<1>5. g \in Seq(Seq(Byte)) /\ Len(g) = n /\ \A k \in 1..n : g[k] = IF k = n THEN le ELSE fs[k]
  <2>1. g = [k \in 1..n |-> IF k = n THEN le ELSE fs[k]]
    BY <1>1
  <2>2. \A k \in 1..n : fs[k] \in Seq(Byte)
    BY DEF n
  <2>3. \A k \in 1..n : (IF k = n THEN le ELSE fs[k]) \in Seq(Byte)
    BY <1>2, <2>2
  <2> QED
    BY <1>1, <2>1, <2>3, MadeSeq
<1>6. g = Append(f, le)
  <2> HIDE DEF g
  <2>1. /\ Append(f, le) \in Seq(Seq(Byte)) /\ Len(Append(f, le)) = n /\ Append(f, le)[n] = le
        /\ \A k \in 1..(n - 1) : Append(f, le)[k] = f[k]
    BY <1>1, <1>2, <1>3, AppendAt
  <2>2. ASSUME NEW k \in 1..n PROVE Append(f, le)[k] = g[k]
    <3>1. k = n \/ (k # n /\ k \in 1..(n - 1))
      BY <1>1
    <3>2. g[k] = IF k = n THEN le ELSE fs[k]
      BY <1>5
    <3>3. k \in 1..(n - 1) => Append(f, le)[k] = fs[k]
      BY <1>3, <2>1, Zenon
    <3> QED
      BY <2>1, <3>1, <3>2, <3>3, Zenon
  <2> QED
    BY <1>5, <2>1, <2>2, SeqEqual
<1> DEFINE ff == FlattenSeq(f)
<1>7. ff \in Seq(Byte) /\ FlattenSeq(fs) = ff \o l /\ FlattenSeq(g) = ff \o le
  <2>1. ff \in Seq(Byte)
    BY <1>3, FlattenType
  <2>2. FlattenSeq(Append(f, l)) = ff \o l /\ FlattenSeq(Append(f, le)) = ff \o le
    BY <1>1, <1>2, <1>3, FlattenAppend DEF l
  <2> HIDE DEF g
  <2> QED
    BY <1>4, <1>6, <2>1, <2>2, Zenon
<1> HIDE DEF ff
<1>8. Joins(ff, l, e)
  BY <1>1, <1>7, ByteJoins DEF l
<1>9. FlattenSeq(g) = FlattenSeq(fs) \o e
  BY <1>7, <1>8, Zenon DEF Joins, le
<1>10. g = [fs EXCEPT ![Len(fs)] = @ \o e]
  BY DEF le, l, n
<1> HIDE DEF g
<1> QED
  BY <1>5, <1>9, <1>10

\* A byte and its code
LEMMA EscapeOneIs ==
    ASSUME NEW byte \in Byte
    PROVE  EscapePayload(<<byte>>) = Coded(byte)
<1> DEFINE e == IF byte = ESC THEN <<ESC, ESC>> ELSE <<byte>>
           f == [i \in DOMAIN <<byte>> |-> IF <<byte>>[i] = ESC THEN <<ESC, ESC>> ELSE <<(<<byte>>[i])>>]
<1>1. e \in Seq(Byte)
  BY MuxBytes
<1>2. f = <<e>>
  OBVIOUS
<1>3. EscapePayload(<<byte>>) = FlattenSeq(f)
  BY DEF EscapePayload
<1>4. e = Coded(byte)
  BY DEF Coded
<1> HIDE DEF e, f
<1>5. FlattenSeq(<<e>>) = e
  BY <1>1, FlattenSingle
<1> QED
  BY <1>2, <1>3, <1>4, <1>5

\* The frames carry d so far, and go on.
Collected(fs, id, d) ==
    /\ fs \in Begun
    /\ \E r \in Seq(Item) : Frame(r, FlattenSeq(fs), id, id, d)

\* One byte more, in the last frame or in a new one
LEMMA CollectedMore ==
    ASSUME NEW id \in Byte \ {ESC}, NEW fs, NEW d \in Seq(Byte), Collected(fs, id, d),
           NEW b \in Byte
    PROVE  Collected(AddByte(id, fs, b), id, Append(d, b))
<1> DEFINE full == FrameFull(Len(Last(fs)))
           s  == <<ESC, id>>
           gs == IF full THEN Append(fs, s) ELSE fs
           e  == EscapePayload(<<b>>)
           hs == [gs EXCEPT ![Len(gs)] = @ \o e]
<1>1. fs \in Begun /\ AddByte(id, fs, b) \in Begun /\ AddByte(id, fs, b) = hs
  BY AddByteFits DEF Collected, AddByte
<1>2. fs \in Seq(Seq(Byte)) /\ fs # <<>> /\ s \in Seq(Byte) /\ e \in Seq(Byte) /\ e = Coded(b)
  BY <1>1, MuxBytes, EscapeOne, EscapeOneIs DEF Begun
<1>3. PICK r \in Seq(Item) : Frame(r, FlattenSeq(fs), id, id, d)
  BY DEF Collected
<1> HIDE DEF s, e
<1>4. PICK q \in Seq(Item) : /\ gs \in Seq(Seq(Byte)) /\ gs # <<>>
                             /\ Frame(q, FlattenSeq(gs), id, id, d)
  <2>1. CASE ~full
    BY <1>2, <1>3, <2>1
  <2>2. CASE full
    <3> DEFINE x == Selected(id)
               t == r \o <<x>>
    <3>1. x \in Item /\ x.to = id /\ CodeOf[x] = s /\ DataOf(id)[x] = <<>>
      BY BytesType, SelectItem DEF s
    <3> HIDE DEF x
    <3>2. FlattenSeq(fs) \in Seq(Byte)
      BY <1>2, FlattenType
    <3>3. t \in Seq(Item) /\ Frame(t, FlattenSeq(fs) \o CodeOf[x], id, x.to, d \o DataOf(id)[x])
      BY <1>3, <3>1, <3>2, FrameMore
    <3>4. d \o <<>> = d
      OBVIOUS
    <3>5. Append(fs, s) \in Seq(Seq(Byte)) /\ Len(Append(fs, s)) = Len(fs) + 1 /\ Len(fs) \in Nat
      BY <1>2
    <3>6. Append(fs, s) # <<>>
      <4>1. Len(Append(fs, s)) # 0 /\ Len(<<>>) = 0
        BY <3>5
      <4> QED
        BY <4>1
    <3>7. FlattenSeq(Append(fs, s)) = FlattenSeq(fs) \o s
      BY <1>2, FlattenAppend
    <3> HIDE DEF t
    <3>8. Frame(t, FlattenSeq(Append(fs, s)), id, id, d)
      BY <3>1, <3>3, <3>4, <3>7, Zenon
    <3> QED
      BY <2>2, <3>3, <3>5, <3>6, <3>8
  <2> QED
    BY <2>1, <2>2
<1> HIDE DEF gs
<1>5. FlattenSeq(gs) \in Seq(Byte) /\ FlattenSeq(hs) = FlattenSeq(gs) \o e
  BY <1>2, <1>4, FlattenType, FlattenLonger
<1> DEFINE y == [to |-> id, byte |-> b]
           u == q \o <<y>>
<1>6. y \in Item /\ y.to = id /\ CodeOf[y] = e /\ DataOf(id)[y] = <<b>>
  BY <1>2, ByteItem
<1> HIDE DEF y, hs
<1>7. u \in Seq(Item) /\ Frame(u, FlattenSeq(gs) \o CodeOf[y], id, y.to, d \o DataOf(id)[y])
  BY <1>4, <1>5, <1>6, FrameMore
<1>8. d \o <<b>> = Append(d, b)
  BY AppendIsConcat
<1> HIDE DEF u
<1>9. Frame(u, FlattenSeq(hs), id, id, Append(d, b))
  BY <1>5, <1>6, <1>7, <1>8, Zenon
<1> QED
  BY <1>1, <1>7, <1>9 DEF Collected

\* The first bytes of a payload, and one more
LEMMA OneLonger ==
    ASSUME NEW s \in Seq(Byte), NEW n \in Nat, n + 1 <= Len(s)
    PROVE  /\ SubSeq(s, 1, n) \in Seq(Byte)
           /\ SubSeq(s, 1, n + 1) = Append(SubSeq(s, 1, n), s[n + 1])
<1> DEFINE a == SubSeq(s, 1, n)
           b == SubSeq(s, 1, n + 1)
           x == s[n + 1]
<1>1. /\ a \in Seq(Byte) /\ Len(a) = n /\ \A k \in 1..n : a[k] = s[k]
      /\ b \in Seq(Byte) /\ Len(b) = n + 1 /\ \A k \in 1..(n + 1) : b[k] = s[k]
      /\ x \in Byte
  OBVIOUS
<1>2. b[n + 1] = x
  BY <1>1
<1> HIDE DEF a, b, x
<1>3. Append(a, x) \in Seq(Byte) /\ Len(Append(a, x)) = n + 1
  BY <1>1
<1>4. \A k \in 1..(n + 1) : b[k] = Append(a, x)[k]
  BY <1>1, <1>2
<1>5. b = Append(a, x)
  BY <1>1, <1>3, <1>4, SeqEqual
<1> QED
  BY <1>1, <1>5 DEF a, b, x

\* emit_framed_payload: the frames of a payload carry it to its stream and leave
\* no stream selected, wherever they are split and whatever is escaped.
LEMMA PayloadItems ==
    ASSUME NEW id \in Byte \ {ESC}, NEW bytes \in Seq(Byte)
    PROVE  \E r \in Seq(Item) : Frame(r, FlattenSeq(PayloadFrames(id, bytes)), id, 0, bytes)
<1> DEFINE m == Len(bytes)
           it == CHOOSE g : Collects(g, id, bytes, m)
           fold == FoldLeft(LAMBDA acc, byte : AddByte(id, acc, byte), << <<ESC, id>> >>, bytes)
<1>1. m \in Nat /\ DOMAIN bytes = 1..m
  OBVIOUS
<1>2. Collects(it, id, bytes, m)
  BY <1>1, CollectsExists
<1>3. fold = it[1..m]
  BY <1>1 DEF FoldLeft, MapThenFoldSet, Collects
<1> HIDE DEF it, fold
<1> DEFINE d(n) == SubSeq(bytes, 1, n)
           T == {n \in Nat : n <= m => Collected(it[1..n], id, d(n))}
<1>4. 0 \in T
  <2>2. it[1..0] = << <<ESC, id>> >>
    BY <1>1, <1>2, CollectsNext
  <2> DEFINE b == <<ESC, id>>
             x == Selected(id)
  <2>3. b \in Seq(Byte) /\ Len(b) = 2
    BY MuxBytes
  <2>4. x \in Item /\ <<x>> \in Seq(Item) /\ x.to = id /\ x.byte = SELECT /\ CodeOf[x] = b
        /\ \A j : DataOf(j)[x] = <<>>
    BY BytesType, SelectItem
  <2> HIDE DEF b, x
  <2>5. <<b>> \in Begun
    <3>1. <<b>> \in Seq(Seq(Byte)) /\ <<b>> # <<>> /\ Len(<<b>>) = 1 /\ <<b>>[1] = b
      BY <2>3
    <3>2. Len(b) >= 2 /\ Len(b) + 3 <= FrameSize
      BY <2>3, MuxAssumption
    <3> QED
      BY <3>1, <3>2 DEF Begun
  <2>6. d(0) = <<>>
    OBVIOUS
  <2>7. Frame(<<x>>, FlattenSeq(<<b>>), id, id, <<>>)
    <3>1. Code(<<x>>) = CodeOf[x] /\ \A j : Given(j, <<x>>) = DataOf(j)[x]
      BY <2>4, CodeOne
    <3>2. FlattenSeq(<<b>>) = b
      BY <2>3, FlattenSingle
    <3>3. \A c : Routed(<<x>>, c, id)
      BY <2>4, RoutedOne
    <3>4. \A k \in 1..Len(<<x>>) : <<x>>[k].to \in {id, 0}
      BY <2>4
    <3>5. \A j : Given(j, <<x>>) = IF j = id THEN <<>> ELSE <<>>
      BY <2>4, <3>1, Zenon
    <3>6. Code(<<x>>) = FlattenSeq(<<b>>)
      BY <2>4, <3>1, <3>2
    <3> QED
      BY <3>3, <3>4, <3>5, <3>6 DEF Frame
  <2>8. Collected(<<b>>, id, <<>>)
    BY <2>4, <2>5, <2>7 DEF Collected
  <2>9. Collected(it[1..0], id, d(0))
    BY <2>2, <2>6, <2>8 DEF b
  <2> QED
    BY <2>9
<1>5. ASSUME NEW n \in Nat, n \in T PROVE n + 1 \in T
  <2> SUFFICES ASSUME n + 1 <= m PROVE Collected(it[1..(n + 1)], id, d(n + 1))
    OBVIOUS
  <2> DEFINE b == bytes[n + 1]
  <2>1. Collected(it[1..n], id, d(n)) /\ b \in Byte
    <3>1. n + 1 \in 1..Len(bytes) /\ n <= m
      BY <1>1
    <3> QED
      BY <1>5, <3>1, ElementOfSeq
  <2>2. d(n) \in Seq(Byte) /\ d(n + 1) = Append(d(n), b)
    BY <1>1, OneLonger
  <2>3. it[1..(n + 1)] = AddByte(id, it[1..n], b)
    BY <1>1, <1>2, CollectsNext
  <2> HIDE DEF d, b
  <2>4. Collected(AddByte(id, it[1..n], b), id, Append(d(n), b))
    BY <2>1, <2>2, CollectedMore
  <2> QED
    BY <2>2, <2>3, <2>4
<1>6. Nat \subseteq T
  <2> HIDE DEF T
  <2> QED
    BY <1>4, <1>5, NatSetInduction
<1>7. Collected(fold, id, bytes)
  <2>1. m \in T /\ m <= m
    BY <1>1, <1>6
  <2>2. d(m) = bytes
    BY <1>1
  <2> QED
    BY <1>3, <2>1, <2>2
<1> HIDE DEF T, d, m
<1>8. fold \in Seq(Seq(Byte)) /\ fold # <<>>
  BY <1>7 DEF Collected, Begun
<1>9. PICK r \in Seq(Item) : Frame(r, FlattenSeq(fold), id, id, bytes)
  BY <1>7 DEF Collected
<1> DEFINE e == <<ESC, DEFAULT>>
           x == Selected(0)
           u == r \o <<x>>
<1>10. e \in Seq(Byte)
  BY MuxBytes
<1>11. FlattenSeq(AddEnd(fold)) = FlattenSeq(fold) \o e /\ FlattenSeq(fold) \in Seq(Byte)
  <2>1. AddEnd(fold) = Append(fold, e) \/ AddEnd(fold) = [fold EXCEPT ![Len(fold)] = @ \o e]
    BY DEF AddEnd
  <2> HIDE DEF e
  <2>2. FlattenSeq(Append(fold, e)) = FlattenSeq(fold) \o e
    BY <1>8, <1>10, FlattenAppend
  <2>3. FlattenSeq([fold EXCEPT ![Len(fold)] = @ \o e]) = FlattenSeq(fold) \o e
    BY <1>8, <1>10, FlattenLonger
  <2>4. FlattenSeq(fold) \in Seq(Byte)
    BY <1>8, FlattenType
  <2> QED
    BY <2>1, <2>2, <2>3, <2>4, Zenon
<1>12. x \in Item /\ x.to = 0 /\ x.byte = SELECT /\ CodeOf[x] = e /\ DataOf(id)[x] = <<>>
  <2>1. 0 \in Byte \ {ESC} /\ DEFAULT = 0
    BY ItemFacts DEF DEFAULT
  <2> QED
    BY <2>1, BytesType, SelectItem
<1> HIDE DEF x, e
<1>13. u \in Seq(Item) /\ Frame(u, FlattenSeq(fold) \o CodeOf[x], id, x.to, bytes \o DataOf(id)[x])
  BY <1>9, <1>11, <1>12, FrameMore
<1>14. bytes \o <<>> = bytes
  OBVIOUS
<1>15. PayloadFrames(id, bytes) = AddEnd(fold)
  BY DEF PayloadFrames, fold
<1> HIDE DEF u
<1>16. Frame(u, FlattenSeq(PayloadFrames(id, bytes)), id, 0, bytes)
  BY <1>11, <1>12, <1>13, <1>14, <1>15, Zenon
<1> QED
  BY <1>13, <1>16

-----------------------------------------------------------------------------
(* The way up: from a guest to the PTY of its stream.                      *)

\* Items for streams, or for none
ForStreams(q) == \A k \in 1..Len(q) : q[k].to \in ValidStreamId \cup {0}

\* Clients that print on a stream
Printing == {c \in MuxClients : StreamOf[c] \in ValidStreamId}

\* What the mux_batch thread has not yet taken from a client
Kept(c) == IF serving = c THEN <<>> ELSE batch[c].staged

\* All a client printed is on its PTY, among the items q, or in its buffer.
Accounts(q, c) == put[c] = (Delivered(StreamOf[c]) \o Given(StreamOf[c], q)) \o Kept(c)

\* The clients and the mux_batch thread: a call is made from a flush, for the
\* stream of the client; a buffer of another stream is empty, and so is one whose
\* flush is over.
SinksInv ==
    /\ put \in [MuxClients -> Seq(Byte)]
    /\ calls \subseteq flushing
    /\ \A c \in calls : batch[c].stream_id = StreamOf[c]
    /\ \A c \in MuxClients : batch[c].stream_id # StreamOf[c] => batch[c].staged = <<>>
    /\ \A c \in Printing : c \in flushing \ calls => batch[c].staged = <<>>
    /\ serving = NoClient => frames = <<>>

\* The host has still to read the registry, or what is left of it, and then q.
RegistryAhead(q) ==
    /\ virtioso_registry_json = <<>> /\ num_proc = BuiltinCount /\ cur_rx_stream = -1
    /\ \A p \in PtyIdx : p >= BuiltinCount => out[p] = <<>>
    /\ Routed(q, 0, 0)
    /\ \/ ~registry_emitted /\ q = <<>> /\ Sent = <<>> /\ control_state = "IDLE" /\ ~in_escape
       \/ /\ registry_emitted /\ RegistryFits
          /\ \E w \in Seq(Byte) : Awaits(w) /\ Sent = w \o Code(q)
    /\ \A c \in Printing : Accounts(q, c)

\* The host has still to read q; the stream c is selected.
Streaming(q, c) ==
    /\ registry_emitted /\ control_state = "IDLE"
    /\ Pending(q, Sent, c, in_escape)
    /\ cur_rx_stream \in IF StreamPtys(c) = {} THEN {-1} ELSE StreamPtys(c)
    /\ \A d \in Printing : StreamPtys(StreamOf[d]) # {} => Accounts(q, d)

\* The way up as long as the thread of the tty runs
OnTheWay ==
    \E q \in Seq(Item) :
        /\ ForStreams(q)
        /\ RegistryAhead(q) \/ \E c \in ValidStreamId \cup {0} : Streaming(q, c)

\* A PTY is never ahead of the guest.
PtysBehind == \A c \in Printing : IsPrefix(Delivered(StreamOf[c]), put[c])

UpInv == SinksInv /\ PtysBehind /\ (alive => OnTheWay)

\* Clients print on streams of their own; the host has memory for the registry, and
\* there is one.
OneClientPerStream == \A c, d \in Printing : StreamOf[c] = StreamOf[d] => c = d
HostTakesRegistry == RegistryJson # <<>> /\ "alloc" \notin Faults

\* Items for streams, one after the other
LEMMA StreamsConcat ==
    ASSUME NEW q \in Seq(Item), NEW r \in Seq(Item), ForStreams(q), ForStreams(r)
    PROVE  ForStreams(q \o r)
<1> DEFINE V == ValidStreamId \cup {0}
<1>1. /\ Len(q) \in Nat /\ Len(r) \in Nat /\ Len(q \o r) = Len(q) + Len(r)
      /\ \A k \in 1..Len(q) : (q \o r)[k] = q[k]
      /\ \A k \in (Len(q) + 1)..(Len(q) + Len(r)) : (q \o r)[k] = r[k - Len(q)]
  OBVIOUS
<1>2. (\A k \in 1..Len(q) : q[k].to \in V) /\ (\A k \in 1..Len(r) : r[k].to \in V)
  BY DEF ForStreams
<1> HIDE DEF V
<1>3. ASSUME NEW k \in 1..Len(q \o r) PROVE (q \o r)[k].to \in V
  <2>1. CASE k \in 1..Len(q)
    BY <1>1, <1>2, <2>1
  <2>2. CASE k \notin 1..Len(q)
    <3>1. k \in (Len(q) + 1)..(Len(q) + Len(r)) /\ k - Len(q) \in 1..Len(r)
      BY <1>1, <1>3, <2>2
    <3> QED
      BY <1>1, <1>2, <3>1
  <2> QED
    BY <2>1, <2>2
<1> QED
  BY <1>3 DEF ForStreams, V

\* And without the first
LEMMA StreamsTail ==
    ASSUME NEW q \in Seq(Item), q # <<>>, ForStreams(q)
    PROVE  ForStreams(Tail(q)) /\ Head(q).to \in ValidStreamId \cup {0}
<1> DEFINE n == Len(q)
           t == Tail(q)
           V == ValidStreamId \cup {0}
<1>1. n \in Nat /\ n >= 1 /\ Head(q) = q[1]
  BY EmptySeq
<1>2. Len(t) = n - 1 /\ \A k \in 1..(n - 1) : t[k] = q[k + 1] /\ k + 1 \in 1..n
  BY <1>1
<1>3. 1 \in 1..n /\ \A k \in 1..n : q[k].to \in V
  BY <1>1 DEF ForStreams
<1> HIDE DEF n, t, V
<1> QED
  BY <1>1, <1>2, <1>3 DEF ForStreams, t, V

\* A frame of a stream is for it.
LEMMA StreamsFrame ==
    ASSUME NEW r, NEW w, NEW id \in ValidStreamId, NEW e, NEW d, Frame(r, w, id, e, d)
    PROVE  ForStreams(r)
BY DEF Frame, ForStreams

\* What a client has is bytes.
LEMMA AccountTypes ==
    ASSUME IInv, UplinkType, NEW c \in MuxClients, NEW q \in Seq(Item)
    PROVE  /\ Kept(c) \in Seq(Byte) /\ Delivered(StreamOf[c]) \in Seq(Byte)
           /\ Given(StreamOf[c], q) \in Seq(Byte)
<1>1. Delivered(StreamOf[c]) \in Seq(Byte)
  BY DeliveredType
<1>2. Given(StreamOf[c], q) \in Seq(Byte)
  BY CodeType
<1>3. Kept(c) \in Seq(Byte)
  BY DEF UplinkType, Kept
<1> QED
  BY <1>1, <1>2, <1>3

\* The demuxer does nothing.
LEMMA DeliveredSame ==
    ASSUME UNCHANGED vars, NEW i
    PROVE  StreamPtys(i)' = StreamPtys(i) /\ Delivered(i)' = Delivered(i)
BY DEF vars, table, StreamPtys, Registered, Delivered

\* A client that prints keeps what it printed.
LEMMA KeepsPrinted ==
    ASSUME IInv, UplinkType, UNCHANGED vars, NEW q \in Seq(Item), NEW c \in MuxClients, Accounts(q, c),
           NEW e \in Seq(Byte), put'[c] = put[c] \o e, Kept(c)' = Kept(c) \o e
    PROVE  Accounts(q, c)'
<1> DEFINE d == Delivered(StreamOf[c])
           g == Given(StreamOf[c], q)
           dg == d \o g
           k == Kept(c)
<1>1. k \in Seq(Byte) /\ d \in Seq(Byte) /\ g \in Seq(Byte)
  BY AccountTypes
<1>2. Delivered(StreamOf[c])' = d
  BY DeliveredSame
<1>3. put[c] = dg \o k
  BY DEF Accounts
<1> HIDE DEF d, g, k
<1>4. dg \in Seq(Byte)
  BY <1>1
<1> HIDE DEF dg
<1>5. Joins(dg, k, e)
  BY <1>1, <1>4, ByteJoins
<1>6. put'[c] = dg \o (k \o e)
  BY <1>3, <1>5, Zenon DEF Joins
<1> QED
  BY <1>2, <1>6 DEF Accounts, dg, g, k

\* Steps of the target that send nothing new: what a client prints, it keeps.
LEMMA NothingSent ==
    ASSUME IInv, UplinkType, UpInv, SinksInv', UNCHANGED <<vars, registry_emitted>>, Sent' = Sent,
           \A c \in Printing : \E e \in Seq(Byte) : put'[c] = put[c] \o e /\ Kept(c)' = Kept(c) \o e
    PROVE  UpInv'
<1>1. \A i : StreamPtys(i)' = StreamPtys(i) /\ Delivered(i)' = Delivered(i)
  BY DeliveredSame
<1>2. \A c \in Printing : c \in MuxClients
  BY DEF Printing
<1>3. PtysBehind'
  <2> SUFFICES ASSUME NEW c \in Printing PROVE IsPrefix(Delivered(StreamOf[c]), put'[c])
    BY <1>1 DEF PtysBehind
  <2>1. PICK e \in Seq(Byte) : put'[c] = put[c] \o e
    OBVIOUS
  <2>2. put[c] \in Seq(Byte) /\ Delivered(StreamOf[c]) \in Seq(Byte)
    BY <1>2, DeliveredType DEF UpInv, SinksInv
  <2>3. IsPrefix(Delivered(StreamOf[c]), put[c]) /\ IsPrefix(put[c], put'[c])
    BY <2>1, <2>2, FrontIsPrefix DEF UpInv, PtysBehind
  <2>4. put'[c] \in Seq(Byte)
    BY <1>2 DEF SinksInv
  <2> QED
    BY <2>2, <2>3, <2>4, PrefixTransitive
<1>4. ASSUME alive' PROVE OnTheWay'
  <2>1. alive
    BY <1>4 DEF vars
  <2>2. PICK q \in Seq(Item) :
            /\ ForStreams(q)
            /\ RegistryAhead(q) \/ \E c \in ValidStreamId \cup {0} : Streaming(q, c)
    BY <2>1 DEF UpInv, OnTheWay
  <2>3. ASSUME NEW c \in Printing, Accounts(q, c) PROVE Accounts(q, c)'
    <3>1. PICK e \in Seq(Byte) : put'[c] = put[c] \o e /\ Kept(c)' = Kept(c) \o e
      OBVIOUS
    <3> QED
      BY <1>2, <2>3, <3>1, KeepsPrinted
  <2>4. RegistryAhead(q) => RegistryAhead(q)'
    <3>1. ASSUME NEW w, Awaits(w) PROVE Awaits(w)'
      BY <3>1 DEF Awaits, vars, parser, control
    <3> QED
      BY <2>3, <3>1 DEF RegistryAhead, vars, parser, control, table
  <2>5. ASSUME NEW c, Streaming(q, c) PROVE Streaming(q, c)'
    BY <1>1, <2>3, <2>5 DEF Streaming, vars, parser, control
  <2> QED
    BY <2>2, <2>4, <2>5 DEF OnTheWay
<1> QED
  BY <1>3, <1>4 DEF UpInv

\* A guest prints: the byte is added to the buffer of its client.
LEMMA GuestPrintsUp ==
    ASSUME LInv, UpInv, NEW c \in MuxClients, NEW b \in PutBytes, GuestPrints(c, b)
    PROVE  UpInv'
<1>0. UplinkType /\ IInv /\ b \in Byte /\ NoClient \notin MuxClients
  BY MuxParts, LinkAssumption, MuxAssumption
<1>1. /\ put \in [MuxClients -> Seq(Byte)] /\ calls \subseteq flushing
      /\ batch \in [MuxClients -> [stream_id: Byte, staged: Seq(Byte)]]
      /\ calls \subseteq MuxClients /\ serving \in calls \cup {NoClient}
  BY <1>0 DEF UpInv, SinksInv, UplinkType
<1>2. /\ c \notin flushing /\ put' = [put EXCEPT ![c] = Append(@, b)]
      /\ batch' = [batch EXCEPT ![c] = [stream_id |-> StreamOf[c], staged |-> Append(Staged(c), b)]]
      /\ \/ flushing' = flushing \cup {c} /\ calls' = calls \cup {c}
         \/ UNCHANGED <<flushing, calls>>
      /\ UNCHANGED <<serving, frames, registry_emitted, uart_tx, vars>>
  BY DEF GuestPrints, Putchar
<1>3. c \notin calls /\ serving # c
  BY <1>0, <1>1, <1>2
<1>4. Staged(c) = batch[c].staged
  BY DEF Staged, UpInv, SinksInv
<1>5. /\ batch'[c].stream_id = StreamOf[c] /\ batch'[c].staged = Append(batch[c].staged, b)
      /\ \A d \in MuxClients : d # c => batch'[d] = batch[d]
  BY <1>1, <1>2, <1>4
<1>6. SinksInv'
  <2>1. put' \in [MuxClients -> Seq(Byte)]
    <3>1. Append(put[c], b) \in Seq(Byte)
      BY <1>0, <1>1
    <3> QED
      BY <1>1, <1>2, <3>1
  <2>2. calls' \subseteq flushing' /\ calls' \subseteq MuxClients
    BY <1>1, <1>2
  <2>3. \A d \in calls' : batch'[d].stream_id = StreamOf[d]
    BY <1>1, <1>2, <1>5 DEF UpInv, SinksInv
  <2>4. \A d \in MuxClients : batch'[d].stream_id # StreamOf[d] => batch'[d].staged = <<>>
    BY <1>5 DEF UpInv, SinksInv
  <2>5. \A d \in Printing : d \in flushing' \ calls' => batch'[d].staged = <<>>
    BY <1>2, <1>5 DEF UpInv, SinksInv, Printing
  <2>6. serving' = NoClient => frames' = <<>>
    BY <1>2 DEF UpInv, SinksInv
  <2> QED
    BY <2>1, <2>2, <2>3, <2>4, <2>5, <2>6 DEF SinksInv
<1>7. ASSUME NEW d \in MuxClients
      PROVE  \E e \in Seq(Byte) : put'[d] = put[d] \o e /\ Kept(d)' = Kept(d) \o e
  <2>1. CASE d = c
    <3>1. put[c] \in Seq(Byte) /\ batch[c].staged \in Seq(Byte) /\ <<b>> \in Seq(Byte)
      BY <1>0, <1>1
    <3>2. put'[c] = put[c] \o <<b>>
      <4>1. put'[c] = Append(put[c], b)
        BY <1>1, <1>2
      <4> QED
        BY <1>0, <3>1, <4>1, AppendIsConcat
    <3>3. batch'[c].staged = batch[c].staged \o <<b>>
      BY <1>0, <1>5, <3>1, AppendIsConcat
    <3>4. Kept(c)' = Kept(c) \o <<b>>
      BY <1>2, <1>3, <3>3 DEF Kept
    <3> QED
      BY <2>1, <3>1, <3>2, <3>4
  <2>2. CASE d # c
    <3>1. put'[d] = put[d] /\ Kept(d)' = Kept(d)
      BY <1>1, <1>2, <1>5, <2>2 DEF Kept
    <3>2. put[d] \in Seq(Byte) /\ Kept(d) \in Seq(Byte)
      BY <1>1 DEF Kept
    <3> DEFINE p == put[d]
               k == Kept(d)
    <3> HIDE DEF p, k
    <3>3. p \o <<>> = p /\ k \o <<>> = k /\ <<>> \in Seq(Byte)
      BY <3>2 DEF p, k
    <3> QED
      BY <3>1, <3>3 DEF p, k
  <2> QED
    BY <2>1, <2>2
<1>8. Sent' = Sent
  BY <1>2 DEF Sent
<1> QED
  BY <1>0, <1>2, <1>6, <1>7, <1>8, NothingSent DEF Printing

\* A client that prints nothing keeps what it has.
LEMMA KeepsSame ==
    ASSUME IInv, UplinkType, UpInv, SinksInv', UNCHANGED <<vars, registry_emitted, put>>, Sent' = Sent,
           \A c \in Printing : Kept(c)' = Kept(c)
    PROVE  UpInv'
<1>1. ASSUME NEW c \in Printing
      PROVE  \E e \in Seq(Byte) : put'[c] = put[c] \o e /\ Kept(c)' = Kept(c) \o e
  <2>1. put[c] \in Seq(Byte) /\ Kept(c) \in Seq(Byte)
    BY DEF UpInv, SinksInv, Printing, UplinkType, Kept
  <2> DEFINE p == put[c]
             k == Kept(c)
  <2>2. put'[c] = p /\ Kept(c)' = k
    OBVIOUS
  <2> HIDE DEF p, k
  <2>3. p \o <<>> = p /\ k \o <<>> = k /\ <<>> \in Seq(Byte)
    BY <2>1 DEF p, k
  <2> QED
    BY <2>2, <2>3 DEF p, k
<1> QED
  BY <1>1, NothingSent

\* guest_console_sink_flush returns: the buffer was consumed before.
LEMMA SinkReturnsUp ==
    ASSUME LInv, UpInv, NEW c \in MuxClients, SinkReturns(c)
    PROVE  UpInv'
<1>0. UplinkType /\ IInv /\ NoClient \notin MuxClients
  BY MuxParts, MuxAssumption
<1>1. /\ calls \subseteq flushing /\ serving \in calls \cup {NoClient}
      /\ batch \in [MuxClients -> [stream_id: Byte, staged: Seq(Byte)]]
  BY <1>0 DEF UpInv, SinksInv, UplinkType
<1>2. /\ c \in flushing \ calls /\ flushing' = flushing \ {c}
      /\ batch' = [batch EXCEPT ![c] = [stream_id |-> StreamOf[c], staged |-> <<>>]]
      /\ UNCHANGED <<calls, serving, frames, registry_emitted, uart_tx, vars, put>>
  BY DEF SinkReturns, FlushDone, history
<1>3. /\ batch'[c].stream_id = StreamOf[c] /\ batch'[c].staged = <<>>
      /\ \A d \in MuxClients : d # c => batch'[d] = batch[d]
  BY <1>1, <1>2
<1>4. SinksInv'
  BY <1>1, <1>2, <1>3 DEF UpInv, SinksInv, Printing
<1>5. ASSUME NEW d \in Printing PROVE Kept(d)' = Kept(d)
  <2>1. d = c => batch[d].staged = <<>>
    BY <1>2 DEF UpInv, SinksInv
  <2> QED
    BY <1>2, <1>3, <2>1 DEF Kept, Printing
<1>6. Sent' = Sent
  BY <1>2 DEF Sent
<1> QED
  BY <1>0, <1>2, <1>4, <1>5, <1>6, KeepsSame

\* mux_batch_batch passes a byte on.
LEMMA PutUplinkUp ==
    ASSUME LInv, UpInv, PutUplink, UNCHANGED <<flushing, vars, put>>
    PROVE  UpInv'
<1>0. UplinkType /\ UartType /\ IInv
  BY MuxParts
<1>1. Sent' = Sent
  BY <1>0, PutKeepsSent
<1>2. frames # <<>> /\ UNCHANGED <<batch, calls, serving, registry_emitted>>
  BY DEF PutUplink
<1>3. SinksInv'
  BY <1>2 DEF UpInv, SinksInv
<1>4. \A c \in Printing : Kept(c)' = Kept(c)
  BY <1>2 DEF Kept
<1> QED
  BY <1>0, <1>1, <1>2, <1>3, <1>4, KeepsSame

\* It returns: what was taken from the buffer leaves it.
LEMMA MuxReturnUp ==
    ASSUME LInv, UpInv, MuxReturn, UNCHANGED <<flushing, vars, put>>
    PROVE  UpInv'
<1>0. UplinkType /\ IInv /\ NoClient \notin MuxClients
  BY MuxParts, MuxAssumption
<1>1. /\ calls \subseteq flushing /\ calls \subseteq MuxClients /\ serving \in calls \cup {NoClient}
      /\ batch \in [MuxClients -> [stream_id: Byte, staged: Seq(Byte)]]
  BY <1>0 DEF UpInv, SinksInv, UplinkType
<1>2. /\ serving # NoClient /\ frames = <<>> /\ calls' = calls \ {serving} /\ serving' = NoClient
      /\ batch' = [batch EXCEPT ![serving].staged = <<>>]
      /\ UNCHANGED <<frames, registry_emitted, uart_tx>>
  BY DEF MuxReturn
<1>3. /\ serving \in MuxClients
      /\ batch'[serving].stream_id = batch[serving].stream_id /\ batch'[serving].staged = <<>>
      /\ \A d \in MuxClients : d # serving => batch'[d] = batch[d]
  BY <1>1, <1>2
<1>4. SinksInv'
  BY <1>1, <1>2, <1>3 DEF UpInv, SinksInv, Printing
<1>5. ASSUME NEW d \in Printing PROVE Kept(d)' = Kept(d)
  BY <1>0, <1>2, <1>3 DEF Kept, Printing
<1>6. Sent' = Sent
  BY <1>2 DEF Sent
<1> QED
  BY <1>0, <1>2, <1>4, <1>5, <1>6, KeepsSame

\* What a client had in its buffer is on the way.
LEMMA TakesKept ==
    ASSUME IInv, UplinkType, OneClientPerStream, UNCHANGED <<vars, put, batch>>,
           NEW c \in Printing, serving = NoClient, serving' = c,
           NEW w, NEW r \in Seq(Item), Frame(r, w, StreamOf[c], 0, batch[c].staged),
           NEW q \in Seq(Item), NEW x \in Printing, Accounts(q, x)
    PROVE  Accounts(q \o r, x)'
<1> DEFINE i == StreamOf[x]
           d == Delivered(i)
           g == Given(i, q)
           h == Given(i, r)
           k == Kept(x)
           gh == g \o h
           dgh == d \o gh
<1>0. c \in MuxClients /\ x \in MuxClients /\ NoClient \notin MuxClients
  BY MuxAssumption DEF Printing
<1>1. k \in Seq(Byte) /\ d \in Seq(Byte) /\ g \in Seq(Byte) /\ h \in Seq(Byte)
  BY <1>0, AccountTypes, CodeType
<1>2. Given(i, q \o r) = g \o h
  BY CodeConcat
<1>3. Delivered(i)' = d
  BY DeliveredSame
<1>4. put'[x] = (d \o g) \o k
  BY DEF Accounts
<1>5. h = IF x = c THEN batch[c].staged ELSE <<>>
  BY DEF Frame, OneClientPerStream
<1>6. k = batch[x].staged /\ Kept(x)' = IF x = c THEN <<>> ELSE k
  BY <1>0 DEF Kept
<1> HIDE DEF i, d, g, h, k
<1>7. Joins(d, g, h) /\ Joins(d, g, k) /\ gh \in Seq(Byte)
  BY <1>1, ByteJoins
<1>8. dgh \in Seq(Byte) /\ dgh = (d \o g) \o h
  BY <1>7, Zenon DEF Joins
<1>9. put'[x] = dgh \o Kept(x)'
  <2>1. CASE x = c
    <3>1. k = h /\ Kept(x)' = <<>>
      BY <1>5, <1>6, <2>1
    <3> HIDE DEF dgh
    <3>2. dgh \o <<>> = dgh
      BY <1>8
    <3> QED
      BY <1>4, <1>8, <3>1, <3>2
  <2>2. CASE x # c
    <3>1. h = <<>> /\ Kept(x)' = k
      BY <1>5, <1>6, <2>2
    <3>2. g \o <<>> = g
      BY <1>1
    <3>3. dgh = d \o g
      BY <3>1, <3>2
    <3> QED
      BY <1>4, <3>1, <3>3
  <2> QED
    BY <2>1, <2>2
<1> QED
  BY <1>2, <1>3, <1>9 DEF Accounts, i, d, dgh, gh, g, h

\* The frames of a call are sent after everything else.
LEMMA CallSent ==
    ASSUME UplinkType, UartType, frames = <<>>, UNCHANGED uart_tx,
           NEW p \in Seq(Seq(Byte)), frames' = RegistryFrames \o p
    PROVE  /\ registry_emitted \/ ~RegistryFits => Sent' = Sent \o FlattenSeq(p)
           /\ ~registry_emitted /\ RegistryFits => Sent' = Sent \o (FromEscape \o FlattenSeq(p))
<1> DEFINE f == FlattenSeq(p)
           g == FlattenSeq(RegistryFrames)
<1>1. uart_tx \in Seq(Byte) /\ f \in Seq(Byte) /\ RegistryFrames \in Seq(Seq(Byte))
  BY FlattenType, RegistryFitsFrame DEF UartType, Framed
<1>2. Sent = uart_tx
  <2>1. uart_tx \o <<>> = uart_tx
    BY <1>1
  <2> QED
    BY <2>1, FlattenEmpty DEF Sent
<1>3. Sent' = uart_tx \o (g \o f)
  <2>1. FlattenSeq(RegistryFrames \o p) = g \o f
    BY <1>1, FlattenConcat, Zenon
  <2> QED
    BY <2>1 DEF Sent
<1>4. CASE registry_emitted \/ ~RegistryFits
  <2>1. RegistryFrames = <<>>
    BY <1>4 DEF RegistryFrames
  <2>2. g = <<>>
    BY <2>1, FlattenEmpty
  <2> HIDE DEF f, g
  <2>3. <<>> \o f = f
    BY <1>1
  <2> QED
    BY <1>2, <1>3, <1>4, <2>2, <2>3 DEF f
<1>5. CASE ~registry_emitted /\ RegistryFits
  <2>1. RegistryFrames = <<FromEscape>> /\ FromEscape \in Seq(Byte)
    BY <1>5, RegistryBytes DEF RegistryFrames
  <2>2. g = FromEscape
    BY <2>1, FlattenSingle
  <2> HIDE DEF f, g
  <2> QED
    BY <1>2, <1>3, <1>5, <2>2 DEF f
<1> QED
  BY <1>4, <1>5

\* No stream has ID 0.
LEMMA NobodyZero ==
    /\ TableInv => StreamPtys(0) = {}
    /\ TableInv' => StreamPtys(0)' = {}
<1>1. TableInv => StreamPtys(0) = {}
  <2> SUFFICES ASSUME TableInv, NEW p \in StreamPtys(0) PROVE FALSE
    OBVIOUS
  <2>1. p \in PtyIdx /\ p \in Registered /\ p >= BuiltinCount /\ tags[p].value = 0
    BY StreamPtysAre DEF TableInv, StreamPtys
  <2>2. p < BuiltinCount
    BY <2>1 DEF TableInv, TableShape
  <2> QED
    BY <2>1, <2>2, MaxPtyAssumption DEF PtyIdx, BuiltinCount
<1>2. TableInv' => StreamPtys(0)' = {}
  <2> SUFFICES ASSUME TableInv', NEW p \in StreamPtys(0)' PROVE FALSE
    OBVIOUS
  <2>1. p \in Registered' /\ p >= BuiltinCount /\ tags'[p].value = 0
    BY DEF StreamPtys
  <2>2. p < BuiltinCount /\ p \in Int
    BY <2>1 DEF TableInv, TableShape, Registered
  <2> QED
    BY <2>1, <2>2 DEF BuiltinCount
<1> QED
  BY <1>1, <1>2

\* mux_batch_batch takes a call: its frames are sent after everything else, and
\* the registry before the first.
LEMMA TakesCall ==
    ASSUME LInv, UpInv, OneClientPerStream, alive, UNCHANGED <<vars, put, batch, uart_tx>>,
           NEW c \in Printing, serving = NoClient, serving' = c, registry_emitted' = TRUE,
           frames' = RegistryFrames \o PayloadFrames(StreamOf[c], batch[c].staged)
    PROVE  OnTheWay'
<1> DEFINE i == StreamOf[c]
           s == batch[c].staged
           p == PayloadFrames(i, s)
           f == FlattenSeq(p)
<1>0. UplinkType /\ UartType /\ IInv /\ frames = <<>> /\ c \in MuxClients
  BY MuxParts DEF UpInv, SinksInv, Printing
<1>1. i \in ValidStreamId /\ i \in Byte \ {ESC} /\ s \in Seq(Byte)
  BY <1>0, ProtocolBytes DEF Printing, UplinkType
<1>2. p \in Seq(Seq(Byte)) /\ f \in Seq(Byte)
  BY <1>1, SomeFrame
<1>3. PICK r \in Seq(Item) : Frame(r, f, i, 0, s)
  BY <1>1, PayloadItems
<1>4. f = Code(r) /\ (\A d : Routed(r, d, 0)) /\ ForStreams(r)
  <2> HIDE DEF i, s, f
  <2>1. f = Code(r) /\ \A d : Routed(r, d, 0)
    BY <1>3 DEF Frame
  <2>2. ForStreams(r)
    BY <1>1, <1>3, StreamsFrame
  <2> QED
    BY <2>1, <2>2
<1>5. /\ registry_emitted \/ ~RegistryFits => Sent' = Sent \o f
      /\ ~registry_emitted /\ RegistryFits => Sent' = Sent \o (FromEscape \o f)
  BY <1>0, <1>2, CallSent
<1>6. PICK q \in Seq(Item) :
          /\ ForStreams(q)
          /\ RegistryAhead(q) \/ \E d \in ValidStreamId \cup {0} : Streaming(q, d)
  BY DEF UpInv, OnTheWay
<1> DEFINE qr == q \o r
<1>7. qr \in Seq(Item) /\ ForStreams(qr) /\ Code(qr) = Code(q) \o f
  <2>1. ForStreams(qr)
    BY <1>4, <1>6, StreamsConcat
  <2> QED
    BY <1>4, <2>1, CodeConcat
<1>8. ASSUME NEW x \in Printing, Accounts(q, x) PROVE Accounts(qr, x)'
  BY <1>0, <1>3, <1>8, TakesKept
<1>9. \A d : StreamPtys(d)' = StreamPtys(d)
  BY DeliveredSame
<1>10. TableInv /\ Sent \in Seq(Byte)
  BY <1>0, SentType DEF IInv, DemuxInv
<1> HIDE DEF i, s, p, f, qr
<1>11. CASE RegistryAhead(q) /\ ~registry_emitted
  <2>1. /\ q = <<>> /\ Sent = <<>> /\ control_state = "IDLE" /\ ~in_escape
        /\ virtioso_registry_json = <<>> /\ num_proc = BuiltinCount /\ cur_rx_stream = -1
        /\ \A t \in PtyIdx : t >= BuiltinCount => out[t] = <<>>
        /\ \A x \in Printing : Accounts(q, x)
    BY <1>11 DEF RegistryAhead
  <2>2. <<>> \o r = r
    OBVIOUS
  <2>3. qr = r /\ \A x \in Printing : Accounts(r, x)'
    BY <1>8, <2>1, <2>2 DEF qr
  <2>4. ASSUME RegistryFits PROVE RegistryAhead(r)'
    <3> DEFINE e == FromEscape
    <3>1. e \in Seq(Byte)
      BY <2>4, RegistryBytes
    <3>2. Sent' = <<>> \o (e \o f)
      BY <1>5, <1>11, <2>1, <2>4
    <3>3. Awaits(e)'
      BY <2>1 DEF Awaits, vars, control, parser
    <3> HIDE DEF e
    <3>4. e \o f \in Seq(Byte)
      BY <1>2, <3>1
    <3>5. Sent' = e \o f
      <4> DEFINE ef == e \o f
      <4>1. Sent' = <<>> \o ef /\ ef \in Seq(Byte)
        BY <3>2, <3>4
      <4> HIDE DEF ef
      <4>2. Sent' = ef
        BY <4>1
      <4> QED
        BY <4>2 DEF ef
    <3>6. \E w \in Seq(Byte) : Awaits(w)' /\ Sent' = w \o Code(r)
      BY <1>4, <3>1, <3>3, <3>5
    <3> QED
      BY <1>4, <2>1, <2>3, <2>4, <3>6 DEF RegistryAhead, vars, table, parser
  <2>5. ASSUME ~RegistryFits PROVE Streaming(r, 0)'
    <3>1. <<>> \o f = f
      BY <1>2
    <3>2. Sent' = Code(r)
      BY <1>4, <1>5, <2>1, <2>5, <3>1
    <3>3. Pending(r, Sent', 0, FALSE)
      BY <1>4, <3>2 DEF Pending
    <3>4. StreamPtys(0)' = {}
      BY <1>9, <1>10, NobodyZero
    <3>5. /\ registry_emitted' /\ control_state' = "IDLE" /\ cur_rx_stream' = -1 /\ in_escape' = in_escape
      BY <2>1 DEF vars, control, parser
    <3>6. Pending(r, Sent, 0, in_escape)'
      BY <2>1, <3>3, <3>5 DEF Pending
    <3> QED
      BY <2>3, <3>4, <3>5, <3>6 DEF Streaming
  <2> QED
    BY <1>4, <2>4, <2>5 DEF OnTheWay
<1>12. CASE RegistryAhead(q) /\ registry_emitted
  <2>1. PICK w \in Seq(Byte) : Awaits(w) /\ Sent = w \o Code(q)
    BY <1>12 DEF RegistryAhead
  <2>2. Awaits(w)'
    BY <2>1 DEF Awaits, vars, control, parser
  <2> DEFINE g == Code(q)
  <2>3. g \in Seq(Byte)
    BY CodeType
  <2> HIDE DEF g
  <2>4. Joins(w, g, f)
    BY <1>2, <2>3, ByteJoins
  <2>5. Sent' = (w \o g) \o f
    BY <1>5, <1>12, <2>1 DEF g
  <2>6. Sent' = w \o Code(qr)
    BY <1>7, <2>4, <2>5, Zenon DEF Joins, g
  <2>7. Routed(qr, 0, 0)
    BY <1>4, <1>12, RoutedConcat DEF RegistryAhead, qr
  <2>8. RegistryAhead(qr)'
    BY <1>8, <1>12, <2>2, <2>6, <2>7 DEF RegistryAhead, vars, table, parser
  <2> QED
    BY <1>7, <2>8 DEF OnTheWay
<1>13. ASSUME NEW d \in ValidStreamId \cup {0}, Streaming(q, d) PROVE OnTheWay'
  <2>1. /\ registry_emitted /\ control_state = "IDLE" /\ Pending(q, Sent, d, in_escape)
        /\ cur_rx_stream \in IF StreamPtys(d) = {} THEN {-1} ELSE StreamPtys(d)
        /\ \A x \in Printing : StreamPtys(StreamOf[x]) # {} => Accounts(q, x)
    BY <1>13 DEF Streaming
  <2>2. in_escape \in BOOLEAN /\ Routed(r, 0, 0)
    BY <1>0, <1>4 DEF IInv, DemuxInv, TypeOK
  <2>3. Pending(q \o r, Sent \o Code(r), d, in_escape)
    BY <1>10, <2>1, <2>2, PendingMore
  <2>4. Sent' = Sent \o Code(r)
    BY <1>4, <1>5, <2>1
  <2>5. Pending(qr, Sent, d, in_escape)'
    BY <2>3, <2>4 DEF Pending, qr, vars, parser
  <2>6. Streaming(qr, d)'
    BY <1>8, <1>9, <2>1, <2>5 DEF Streaming, vars, control, parser
  <2> QED
    BY <1>7, <2>6 DEF OnTheWay
<1> QED
  BY <1>6, <1>11, <1>12, <1>13

\* mux_batch_batch takes a call, or ignores it.
LEMMA MuxBatchUp ==
    ASSUME OneClientPerStream, LInv, UpInv, NEW c \in MuxClients, MuxBatch(c),
           UNCHANGED <<flushing, vars, put>>
    PROVE  UpInv'
<1>0. UplinkType /\ IInv /\ NoClient \notin MuxClients
  BY MuxParts, MuxAssumption
<1>1. /\ calls \subseteq flushing /\ calls \subseteq MuxClients
      /\ batch \in [MuxClients -> [stream_id: Byte, staged: Seq(Byte)]]
  BY <1>0 DEF UpInv, SinksInv, UplinkType
<1>2. serving = NoClient /\ c \in calls /\ UNCHANGED <<batch, uart_tx>> /\ batch[c].stream_id = StreamOf[c]
  BY DEF MuxBatch, UpInv, SinksInv
<1>3. CASE Accepted(batch[c])
  <2>1. /\ serving' = c /\ registry_emitted' = TRUE /\ UNCHANGED calls
        /\ frames' = RegistryFrames \o PayloadFrames(StreamOf[c], batch[c].staged)
    BY <1>2, <1>3 DEF MuxBatch
  <2>2. c \in Printing
    BY <1>2, <1>3 DEF Accepted, Printing
  <2>3. SinksInv'
    BY <1>0, <1>2, <2>1 DEF UpInv, SinksInv
  <2>4. PtysBehind'
    BY DeliveredSame DEF UpInv, PtysBehind
  <2>5. alive' => OnTheWay'
    <3>1. alive' = alive
      BY DEF vars
    <3> QED
      BY <1>2, <2>1, <2>2, <3>1, TakesCall
  <2> QED
    BY <2>3, <2>4, <2>5 DEF UpInv
<1>4. CASE ~Accepted(batch[c])
  <2>1. calls' = calls \ {c} /\ UNCHANGED <<serving, frames, registry_emitted>>
    BY <1>4 DEF MuxBatch
  <2>2. c \in Printing => batch[c].staged = <<>>
    BY <1>2, <1>4 DEF Accepted, Printing
  <2>3. SinksInv'
    BY <1>2, <2>1, <2>2 DEF UpInv, SinksInv
  <2>4. Sent' = Sent /\ \A d \in Printing : Kept(d)' = Kept(d)
    BY <1>2, <2>1 DEF Sent, Kept
  <2> QED
    BY <1>0, <2>1, <2>3, <2>4, KeepsSame
<1> QED
  BY <1>3, <1>4

\* Steps that leave the way up alone
LEMMA UpUnchanged ==
    ASSUME LInv, UpInv, UNCHANGED <<uplinkThread, uart_tx, flushing, vars, put>>
    PROVE  UpInv'
<1>0. UplinkType /\ IInv
  BY MuxParts
<1>1. UNCHANGED <<batch, calls, serving, frames, registry_emitted>>
  BY DEF uplinkThread
<1>2. SinksInv'
  BY <1>1 DEF UpInv, SinksInv
<1>3. Sent' = Sent /\ \A d \in Printing : Kept(d)' = Kept(d)
  BY <1>1 DEF Sent, Kept
<1> QED
  BY <1>0, <1>1, <1>2, <1>3, KeepsSame

-----------------------------------------------------------------------------
(* The host reads.                                                         *)

\* A byte reaches the PTY of one stream, or of none.
OneDelivered ==
    \/ \A i : Delivered(i)' = Delivered(i)
    \/ \E i, b \in Byte : /\ Delivered(i)' = Append(Delivered(i), b)
                          /\ \A j : j # i => Delivered(j)' = Delivered(j)

\* Items that bring e to the stream of a client, whose PTY gets it
LEMMA ReadAccounts ==
    ASSUME IInv, UplinkType, UNCHANGED <<put, serving, batch>>, NEW x \in MuxClients,
           NEW q \in Seq(Item), NEW t \in Seq(Item), NEW e \in Seq(Byte), Accounts(q, x),
           Given(StreamOf[x], q) = e \o Given(StreamOf[x], t),
           Delivered(StreamOf[x])' = Delivered(StreamOf[x]) \o e
    PROVE  Accounts(t, x)' /\ IsPrefix(Delivered(StreamOf[x])', put[x])
<1> DEFINE i == StreamOf[x]
           d == Delivered(i)
           h == Given(i, t)
           k == Kept(x)
           de == d \o e
           hk == h \o k
<1>1. k \in Seq(Byte) /\ d \in Seq(Byte) /\ h \in Seq(Byte)
  BY AccountTypes
<1>2. Kept(x)' = k /\ Delivered(i)' = d \o e
  BY DEF Kept
<1>3. put[x] = (d \o (e \o h)) \o k
  BY DEF Accounts
<1> HIDE DEF i, d, h, k
<1>4. Joins(d, e, h)
  BY <1>1, ByteJoins
<1>5. de \in Seq(Byte) /\ hk \in Seq(Byte) /\ put[x] = (de \o h) \o k
  <2>1. hk \in Seq(Byte)
    BY <1>1
  <2> QED
    BY <1>3, <1>4, <2>1, Zenon DEF Joins
<1> HIDE DEF de
<1>6. Joins(de, h, k)
  BY <1>1, <1>5, ByteJoins
<1>7. put[x] = de \o hk
  BY <1>5, <1>6, Zenon DEF Joins
<1> HIDE DEF hk
<1>8. IsPrefix(de, put[x])
  BY <1>5, <1>7, FrontIsPrefix
<1> QED
  BY <1>2, <1>5, <1>8 DEF Accounts, de, h, i

\* A byte that reaches no PTY of a stream
LEMMA ReadsNothing ==
    ASSUME UpInv, UNCHANGED <<uplinkThread, flushing, put>>,
           \A i : Delivered(i)' = Delivered(i), alive' => OnTheWay'
    PROVE  UpInv' /\ OneDelivered
<1>1. SinksInv'
  BY DEF UpInv, SinksInv, uplinkThread
<1>2. PtysBehind'
  BY DEF UpInv, PtysBehind
<1> QED
  BY <1>1, <1>2 DEF UpInv, OneDelivered

\* Items that bring nothing change no account.
LEMMA AccountsSame ==
    ASSUME IInv, UplinkType, UNCHANGED <<put, serving, batch>>, NEW x \in MuxClients,
           NEW q \in Seq(Item), NEW t \in Seq(Item), Accounts(q, x),
           Given(StreamOf[x], q) = Given(StreamOf[x], t),
           Delivered(StreamOf[x])' = Delivered(StreamOf[x])
    PROVE  Accounts(t, x)'
BY DEF Accounts, Kept

\* The host reads a byte of the registry; the last one brings the streams.
LEMMA ReadsRegistry ==
    ASSUME HostTakesRegistry, LInv, LInv', UpInv, alive, NEW q \in Seq(Item), ForStreams(q),
           RegistryAhead(q), Sent # <<>>, Sent' = Tail(Sent),
           FeedVirtiosoByte(Head(Sent), Mirrored(Head(Sent))),
           UNCHANGED <<uplinkThread, flushing, put>>
    PROVE  UpInv' /\ OneDelivered
<1>0. /\ IInv /\ IInv' /\ UplinkType /\ UartType /\ TypeOK /\ TableInv /\ TableInv'
      /\ OutType /\ UNCHANGED <<put, serving, batch>>
  <2>1. IInv /\ IInv' /\ UplinkType /\ UartType
    BY MuxParts DEF LInv
  <2>2. TypeOK /\ TableInv /\ TableInv'
    BY <2>1 DEF IInv, DemuxInv
  <2> QED
    BY <2>1, <2>2, TypeParts DEF uplinkThread
<1>1. /\ virtioso_registry_json = <<>> /\ num_proc = BuiltinCount /\ cur_rx_stream = -1
      /\ \A p \in PtyIdx : p >= BuiltinCount => out[p] = <<>>
      /\ Routed(q, 0, 0) /\ \A c \in Printing : Accounts(q, c)
      /\ registry_emitted /\ registry_emitted' /\ RegistryFits
  BY DEF RegistryAhead, uplinkThread
<1>2. PICK w \in Seq(Byte) : Awaits(w) /\ Sent = w \o Code(q)
  BY <1>1 DEF RegistryAhead
<1> DEFINE ch == Head(w)
           t  == Tail(w)
           g  == Code(q)
<1>3. w # <<>> /\ ch \in Byte /\ t \in Seq(Byte) /\ g \in Seq(Byte)
  BY <1>1, <1>2, AwaitsBytes, HeadAndTail, CodeType
<1>4. Head(Sent) = ch /\ Sent' = t \o g
  <2> HIDE DEF g
  <2>1. Sent = w \o g
    BY <1>2 DEF g
  <2> QED
    BY <1>2, <1>3, <2>1, BeginsWith
<1>5. RegistrySent
  BY <1>1 DEF RegistrySent, HostTakesRegistry
<1>6. /\ UNCHANGED cur_rx_stream /\ out' = Mirrored(ch)
      /\ \/ /\ UNCHANGED <<alive, virtioso_registry_json, table>>
            /\ t # <<>> /\ Awaits(t)'
         \/ /\ t = <<>> /\ virtioso_registry_json' = RegistryJson
            /\ alive' => control_state' = "IDLE" /\ ~in_escape'
  BY <1>0, <1>1, <1>2, <1>4, <1>5, RegistryByte
<1>7. \A p \in PtyIdx : p # RAW_CCPLEX => out'[p] = out[p]
  BY <1>0, <1>3, <1>6, MirrorElsewhere
<1>8. \A p \in PtyIdx : p >= BuiltinCount => out'[p] = <<>>
  BY <1>1, <1>7 DEF RAW_CCPLEX, BuiltinCount
<1>9. ASSUME NEW i PROVE Delivered(i)' = Delivered(i) /\ Delivered(i) = <<>>
  <2>1. StreamPtys(i) = {}
    BY <1>1 DEF StreamPtys, Registered, BuiltinCount
  <2>2. Delivered(i) = <<>>
    BY <2>1 DEF Delivered
  <2>3. CASE StreamPtys(i)' = {}
    BY <2>2, <2>3 DEF Delivered
  <2>4. ASSUME NEW p \in StreamPtys(i)' PROVE Delivered(i)' = <<>>
    <3>1. p \in PtyIdx /\ p >= BuiltinCount
      <4>1. p \in Registered' /\ p >= BuiltinCount
        BY <2>4 DEF StreamPtys
      <4>2. num_proc' \in BuiltinCount..MaxPty
        BY <1>0 DEF TableInv, TableType
      <4>3. p \in 0..(num_proc' - 1)
        BY <4>1 DEF Registered
      <4>4. p \in 0..(MaxPty - 1)
        <5>1. num_proc' \in Nat /\ MaxPty \in Nat /\ MaxPty >= num_proc'
          BY <4>2, MaxPtyAssumption DEF BuiltinCount
        <5> QED
          BY <4>3, <5>1, LargerInterval
      <4> QED
        BY <4>1, <4>4 DEF PtyIdx
    <3> QED
      BY <1>0, <1>8, <3>1, DeliveredIsThen
  <2> QED
    BY <2>2, <2>3, <2>4
<1>10. \A c \in Printing : Accounts(q, c)'
  BY <1>0, <1>1, <1>9, AccountsSame DEF Printing
<1> HIDE DEF t, g
<1>11. CASE UNCHANGED <<alive, virtioso_registry_json, table>> /\ Awaits(t)'
  <2>1. RegistryAhead(q)'
    BY <1>1, <1>3, <1>4, <1>6, <1>8, <1>10, <1>11 DEF RegistryAhead, table, g
  <2>2. OnTheWay'
    BY <2>1 DEF OnTheWay
  <2> QED
    BY <1>9, <2>2, ReadsNothing
<1>12. CASE /\ t = <<>>
            /\ alive' => control_state' = "IDLE" /\ ~in_escape'
  <2>1. ASSUME alive' PROVE Streaming(q, 0)'
    <3>1. <<>> \o g = g
      BY <1>3
    <3>2. Sent' = Code(q)
      BY <1>4, <1>12, <3>1 DEF g
    <3>3. Pending(q, Sent, 0, in_escape)'
      BY <1>1, <1>12, <2>1, <3>2 DEF Pending
    <3>4. StreamPtys(0)' = {}
      BY <1>0, NobodyZero
    <3> QED
      BY <1>1, <1>6, <1>10, <1>12, <2>1, <3>3, <3>4 DEF Streaming
  <2>2. alive' => OnTheWay'
    BY <2>1 DEF OnTheWay
  <2> QED
    BY <1>9, <2>2, ReadsNothing
<1> QED
  BY <1>6, <1>11, <1>12

\* Nothing is written to the PTY of a stream.
LEMMA SameStreams ==
    ASSUME TableInv, TableInv', UNCHANGED table,
           \A p \in PtyIdx : p >= BuiltinCount => out'[p] = out[p], NEW i
    PROVE  StreamPtys(i)' = StreamPtys(i) /\ Delivered(i)' = Delivered(i)
<1>1. StreamPtys(i)' = StreamPtys(i)
  BY SamePtys
<1>2. CASE StreamPtys(i) = {}
  BY <1>1, <1>2 DEF Delivered
<1>3. ASSUME NEW p \in StreamPtys(i) PROVE Delivered(i)' = Delivered(i)
  <2>1. p \in PtyIdx /\ p >= BuiltinCount /\ p \in StreamPtys(i)'
    BY <1>1, <1>3, StreamPtysAre DEF TableInv
  <2>2. Delivered(i) = out[p] /\ Delivered(i)' = out'[p]
    BY <1>3, <2>1, DeliveredIs, DeliveredIsThen
  <2> QED
    BY <2>1, <2>2
<1> QED
  BY <1>1, <1>2, <1>3

\* The host reads something that brings the streams it knows nothing.
LEMMA ReadsOn ==
    ASSUME LInv, LInv', UpInv, UNCHANGED <<uplinkThread, flushing, put>>,
           UNCHANGED table, \A p \in PtyIdx : p >= BuiltinCount => out'[p] = out[p],
           NEW q \in Seq(Item), NEW c, Streaming(q, c), NEW t \in Seq(Item), ForStreams(t),
           \A i : StreamPtys(i) # {} => Given(i, q) = Given(i, t),
           NEW d \in ValidStreamId \cup {0},
           alive' => /\ control_state' = "IDLE" /\ Pending(t, Sent', d, in_escape')
                     /\ cur_rx_stream' \in IF StreamPtys(d) = {} THEN {-1} ELSE StreamPtys(d)
    PROVE  UpInv' /\ OneDelivered
<1>0. /\ IInv /\ UplinkType /\ TableInv /\ TableInv' /\ UNCHANGED <<put, serving, batch, registry_emitted>>
  BY MuxParts DEF LInv, IInv, DemuxInv, uplinkThread
<1>1. \A i : StreamPtys(i)' = StreamPtys(i) /\ Delivered(i)' = Delivered(i)
  BY <1>0, SameStreams
<1>2. registry_emitted /\ \A x \in Printing : StreamPtys(StreamOf[x]) # {} => Accounts(q, x)
  BY DEF Streaming
<1>3. ASSUME NEW x \in Printing, StreamPtys(StreamOf[x]) # {} PROVE Accounts(t, x)'
  BY <1>0, <1>1, <1>2, <1>3, AccountsSame DEF Printing
<1>4. ASSUME alive' PROVE Streaming(t, d)'
  <2>1. Pending(t, Sent, d, in_escape)'
    BY <1>4 DEF Pending
  <2> QED
    BY <1>0, <1>1, <1>2, <1>3, <1>4, <2>1 DEF Streaming
<1>5. alive' => OnTheWay'
  BY <1>4 DEF OnTheWay
<1> QED
  BY <1>1, <1>5, ReadsNothing

\* A byte of a stream goes to its PTY.
LEMMA ReadsByte ==
    ASSUME LInv, LInv', UpInv, UNCHANGED <<uplinkThread, flushing, put>>, UNCHANGED table,
           NEW q \in Seq(Item), NEW c \in ValidStreamId \cup {0}, Streaming(q, c),
           NEW t \in Seq(Item), ForStreams(t), NEW ch \in Byte, Brings(q, t, c, ch),
           NEW p \in StreamPtys(c), out' = Put(Mirrored(ch), p, ch),
           control_state' = "IDLE", Pending(t, Sent', c, in_escape'), cur_rx_stream' = cur_rx_stream
    PROVE  UpInv' /\ OneDelivered
<1>0. /\ IInv /\ UplinkType /\ TableInv /\ TableInv' /\ OutType
      /\ UNCHANGED <<put, serving, batch, registry_emitted>>
  <2>1. IInv /\ IInv' /\ UplinkType
    BY MuxParts DEF LInv
  <2>2. TypeOK /\ TableInv /\ TableInv'
    BY <2>1 DEF IInv, DemuxInv
  <2> QED
    BY <2>1, <2>2, TypeParts DEF uplinkThread
<1>1. /\ Mirrored(ch) \in [PtyIdx -> Seq(Byte)]
      /\ \A r \in PtyIdx : r # RAW_CCPLEX => Mirrored(ch)[r] = out[r]
  BY <1>0, MirrorElsewhere
<1>2. /\ Delivered(c)' = Append(Delivered(c), ch)
      /\ \A j : j # c => Delivered(j)' = Delivered(j)
  BY <1>0, <1>1, PutDelivered
<1>3. \A i : StreamPtys(i)' = StreamPtys(i)
  BY SamePtys
<1>4. /\ registry_emitted /\ cur_rx_stream \in IF StreamPtys(c) = {} THEN {-1} ELSE StreamPtys(c)
      /\ \A x \in Printing : StreamPtys(StreamOf[x]) # {} => Accounts(q, x)
  BY DEF Streaming
<1>5. ASSUME NEW x \in Printing, StreamOf[x] = c
      PROVE  Accounts(t, x)' /\ IsPrefix(Delivered(c)', put[x])
  <2>1. x \in MuxClients /\ Accounts(q, x)
    BY <1>4, <1>5 DEF Printing
  <2> DEFINE e == <<ch>>
  <2>2. e \in Seq(Byte) /\ Delivered(c)' = Delivered(c) \o e
    BY <1>0, <1>2, DeliveredType, AppendIsConcat
  <2>3. Given(c, q) = e \o Given(c, t)
    BY DEF Brings
  <2> HIDE DEF e
  <2> QED
    BY <1>0, <1>5, <2>1, <2>2, <2>3, ReadAccounts
<1>6. ASSUME NEW x \in Printing, StreamOf[x] # c, Accounts(q, x) PROVE Accounts(t, x)'
  <2> DEFINE g == Given(StreamOf[x], t)
  <2>1. Given(StreamOf[x], q) = <<>> \o g /\ g \in Seq(Byte)
    BY <1>6, CodeType DEF Brings
  <2> HIDE DEF g
  <2>2. <<>> \o g = g
    BY <2>1
  <2> QED
    BY <1>0, <1>2, <1>6, <2>1, <2>2, AccountsSame DEF Printing, g
<1>7. \A x \in Printing : StreamPtys(StreamOf[x])' # {} => Accounts(t, x)'
  BY <1>3, <1>4, <1>5, <1>6
<1>8. PtysBehind'
  BY <1>0, <1>2, <1>5 DEF UpInv, PtysBehind
<1>9. SinksInv'
  BY DEF UpInv, SinksInv, uplinkThread
<1>10. Streaming(t, c)'
  <2>1. Pending(t, Sent, c, in_escape)'
    BY DEF Pending
  <2> QED
    BY <1>0, <1>3, <1>4, <1>7, <2>1 DEF Streaming
<1>11. OnTheWay'
  BY <1>10 DEF OnTheWay
<1>12. OneDelivered
  <2>1. c \in Byte
    BY ProtocolBytes, MuxBytes DEF DEFAULT
  <2> QED
    BY <1>2, <2>1 DEF OneDelivered
<1> QED
  BY <1>8, <1>9, <1>11, <1>12 DEF UpInv

\* feed_virtioso_byte reads a byte of what the mux_batch thread sent.
LEMMA ReadsStream ==
    ASSUME LInv, LInv', UpInv, alive, NEW q \in Seq(Item), ForStreams(q),
           NEW c \in ValidStreamId \cup {0}, Streaming(q, c), Sent # <<>>, Sent' = Tail(Sent),
           FeedVirtiosoByte(Head(Sent), Mirrored(Head(Sent))),
           UNCHANGED <<uplinkThread, flushing, put>>
    PROVE  UpInv' /\ OneDelivered
<1> DEFINE ch == Head(Sent)
           o  == Mirrored(ch)
           t  == Tail(q)
<1>0. IInv /\ TypeOK /\ TableInv /\ OutType /\ in_escape \in BOOLEAN
  <2>1. IInv
    BY DEF LInv
  <2>2. TypeOK /\ TableInv
    BY <2>1 DEF IInv, DemuxInv
  <2> QED
    BY <2>1, <2>2, TypeParts
<1>1. Sent \in Seq(Byte) /\ ch \in Byte
  <2>1. Sent \in Seq(Byte)
    BY MuxParts, SentType
  <2> QED
    BY <2>1, HeadAndTail
<1>2. /\ control_state = "IDLE" /\ Pending(q, Sent, c, in_escape)
      /\ cur_rx_stream \in IF StreamPtys(c) = {} THEN {-1} ELSE StreamPtys(c)
  BY DEF Streaming
<1>3. /\ o \in [PtyIdx -> Seq(Byte)]
      /\ \A p \in PtyIdx : p >= BuiltinCount => o[p] = out[p]
  BY <1>0, <1>1, MirrorElsewhere DEF RAW_CCPLEX, BuiltinCount
<1>4. q # <<>>
  <2>1. CASE in_escape
    BY <1>2, <2>1 DEF Pending
  <2>2. CASE ~in_escape
    BY <1>2, <2>2, CodeEmpty DEF Pending
  <2> QED
    BY <2>1, <2>2
<1>5. t \in Seq(Item) /\ ForStreams(t)
  BY <1>4, StreamsTail, HeadAndTail
<1> HIDE DEF ch, o, t
<1>6. CASE ~in_escape /\ ch = ESC
  <2>1. EscapeStart(ch, o)
    BY <1>2, <1>6, FramingBranch DEF ch, o
  <2>2. /\ out' = o /\ in_escape' = TRUE
        /\ UNCHANGED <<cur_rx_stream, control, table>>
    BY <2>1 DEF EscapeStart
  <2>3. Pending(q, Sent, c, FALSE)
    BY <1>0, <1>2, <1>6 DEF Pending
  <2>4. Pending(q, Sent', c, in_escape')
    BY <1>1, <1>6, <2>2, <2>3, ReadEscape DEF ch
  <2>5. control_state' = "IDLE"
    BY <1>2, <2>2 DEF control
  <2> QED
    BY <1>2, <1>3, <2>2, <2>4, <2>5, ReadsOn
<1>7. CASE in_escape /\ ch # ESC
  <2>1. Pending(q, Sent, c, TRUE)
    BY <1>0, <1>2, <1>7 DEF Pending
  <2>2. /\ Head(q).to = ch /\ Pending(t, Sent', ch, FALSE)
        /\ \A i : Given(i, q) = Given(i, t)
    BY <1>1, <1>7, <2>1, ReadSelect DEF ch, t
  <2>3. ch \in ValidStreamId \cup {0}
    BY <1>4, <2>2, StreamsTail
  <2>4. CASE ch = 0
    <3>1. EscapeDefault(ch, o)
      BY <1>2, <1>7, <2>4, FramingBranch DEF ch, o, DEFAULT
    <3>2. /\ out' = o /\ in_escape' = FALSE /\ cur_rx_stream' = -1
          /\ UNCHANGED <<control, table>>
      BY <3>1 DEF EscapeDefault, NoStream
    <3>3. control_state' = "IDLE" /\ StreamPtys(0) = {}
      BY <1>0, <1>2, <3>2, NobodyZero DEF control
    <3>4. Pending(t, Sent', 0, in_escape')
      BY <2>2, <2>4, <3>2
    <3> QED
      BY <1>3, <1>5, <2>2, <3>2, <3>3, <3>4, ReadsOn
  <2>5. CASE ch \in ValidStreamId
    <3>1. ch \notin {DEFAULT, ESC, CONTROL}
      BY <2>5, ProtocolBytes
    <3>2. EscapeStream(ch, o)
      BY <1>2, <1>7, <3>1, FramingBranch DEF ch, o
    <3>3. /\ out' = o /\ in_escape' = FALSE
          /\ \/ \E i \in Registered : IsPtyOf(i, ch) /\ cur_rx_stream' = i
             \/ ~Known(ch) /\ cur_rx_stream' = -1
          /\ UNCHANGED <<control, table>>
      BY <3>2 DEF EscapeStream, NoStream
    <3>4. control_state' = "IDLE"
      BY <1>2, <3>3 DEF control
    <3>5. cur_rx_stream' \in IF StreamPtys(ch) = {} THEN {-1} ELSE StreamPtys(ch)
      <4>1. ASSUME NEW i \in Registered, IsPtyOf(i, ch), cur_rx_stream' = i
            PROVE  i \in StreamPtys(ch)
        <5>1. tags[i].value = ch /\ ch # 0
          BY <3>1, <4>1 DEF IsPtyOf, DEFAULT
        <5>2. ~(i < BuiltinCount) /\ i \in Int
          BY <1>0, <5>1 DEF TableInv, TableShape, Registered
        <5>3. i >= BuiltinCount
          BY <5>2 DEF BuiltinCount
        <5> QED
          BY <5>1, <5>3 DEF StreamPtys
      <4>2. ~Known(ch) => StreamPtys(ch) = {}
        BY DEF Known, StreamPtys
      <4> QED
        BY <3>3, <4>1, <4>2
    <3>6. Pending(t, Sent', ch, in_escape')
      BY <2>2, <3>3
    <3> QED
      BY <1>3, <1>5, <2>2, <2>3, <3>3, <3>4, <3>5, <3>6, ReadsOn
  <2> QED
    BY <2>3, <2>4, <2>5
<1>8. CASE in_escape <=> ch = ESC
  <2>1. Pending(t, Sent', c, FALSE) /\ Brings(q, t, c, ch)
    BY <1>0, <1>1, <1>2, <1>8, ReadData DEF ch, t
  <2>2. EscapeEscape(ch, o) \/ Payload(ch, o)
    BY <1>2, <1>8, FramingBranch DEF ch, o
  <2>3. /\ in_escape' = FALSE /\ UNCHANGED <<cur_rx_stream, control, table>>
    BY <1>0, <2>2 DEF EscapeEscape, Payload, parser
  <2>4. control_state' = "IDLE" /\ Pending(t, Sent', c, in_escape')
    BY <1>2, <2>1, <2>3 DEF control
  <2>5. CASE StreamPtys(c) = {}
    <3>1. cur_rx_stream = -1
      BY <1>2, <2>5
    <3>2. out' = o \/ out' = Put(o, PHYSICAL_UART_DEFAULT, ch)
      <4>1. cur_rx_stream < 0 /\ ~(cur_rx_stream >= 0)
        BY <3>1
      <4>2. EscapeEscape(ch, o) => out' = o
        BY <4>1 DEF EscapeEscape
      <4>3. Payload(ch, o) => FlushStream(o, PHYSICAL_UART_DEFAULT, ch)
        BY <4>1 DEF Payload
      <4> QED
        BY <1>3, <2>2, <4>2, <4>3 DEF FlushStream
    <3>3. \A p \in PtyIdx : p >= BuiltinCount => out'[p] = out[p]
      BY <1>3, <3>2 DEF Put, PHYSICAL_UART_DEFAULT, BuiltinCount
    <3>4. ASSUME NEW i, StreamPtys(i) # {} PROVE Given(i, q) = Given(i, t)
      <4> DEFINE g == Given(i, t)
      <4>1. Given(i, q) = <<>> \o g /\ g \in Seq(Byte)
        BY <1>5, <2>1, <2>5, <3>4, CodeType DEF Brings
      <4> HIDE DEF g
      <4>2. <<>> \o g = g
        BY <4>1
      <4> QED
        BY <4>1, <4>2 DEF g
    <3> QED
      BY <1>2, <1>5, <2>3, <2>4, <3>3, <3>4, ReadsOn
  <2>6. CASE StreamPtys(c) # {}
    <3>1. cur_rx_stream \in StreamPtys(c) /\ cur_rx_stream >= 0 /\ ~(cur_rx_stream < 0)
      <4>1. cur_rx_stream \in StreamPtys(c)
        BY <1>2, <2>6
      <4>2. cur_rx_stream \in PtyIdx
        BY <1>0, <4>1, StreamPtysAre DEF TableInv
      <4> QED
        BY <4>1, <4>2, MaxPtyAssumption DEF PtyIdx
    <3>2. FlushStream(o, cur_rx_stream, ch)
      BY <2>2, <3>1 DEF EscapeEscape, Payload
    <3>3. CASE out' = Put(o, cur_rx_stream, ch)
      BY <1>1, <1>5, <2>1, <2>3, <2>4, <3>1, <3>3, ReadsByte DEF o
    <3>4. CASE out' = o /\ alive' = FALSE
      BY <1>3, <2>3, <3>4, ReadsOn
    <3> QED
      BY <3>2, <3>3, <3>4 DEF FlushStream
  <2> QED
    BY <2>5, <2>6
<1> QED
  BY <1>6, <1>7, <1>8

\* The host reads a byte: of the registry, or of what follows it.
LEMMA HostUp ==
    ASSUME HostTakesRegistry, LInv, LInv', UpInv, HostReceives
    PROVE  UpInv' /\ OneDelivered
<1>0. UplinkType /\ UartType /\ TableInv /\ TableInv' /\ OutType /\ OuterMode = "raw"
  <2>1. IInv /\ IInv' /\ UplinkType /\ UartType
    BY MuxParts DEF LInv
  <2>2. TypeOK /\ TableInv /\ TableInv'
    BY <2>1 DEF IInv, DemuxInv
  <2> QED
    BY <2>1, <2>2, TypeParts, LinkAssumption
<1>1. /\ Sent # <<>> /\ Sent' = Tail(Sent) /\ Feed(Head(Sent))
      /\ UNCHANGED <<uplinkThread, flushing, put>>
  BY <1>0, HostTakesFirst DEF history
<1>2. alive /\ MirrorAndFeed(Head(Sent)) /\ Head(Sent) \in Byte
  <2>1. Sent \in Seq(Byte)
    BY <1>0, SentType
  <2> QED
    BY <1>0, <1>1, <2>1, MirrorFirst, HeadAndTail
<1>3. CASE FeedVirtiosoByte(Head(Sent), Mirrored(Head(Sent)))
  <2>1. PICK q \in Seq(Item) :
            /\ ForStreams(q)
            /\ RegistryAhead(q) \/ \E c \in ValidStreamId \cup {0} : Streaming(q, c)
    BY <1>2 DEF UpInv, OnTheWay
  <2> QED
    BY <1>1, <1>2, <1>3, <2>1, ReadsRegistry, ReadsStream
<1>4. CASE /\ out' = out \/ out' = Mirrored(Head(Sent))
           /\ alive' = FALSE /\ UNCHANGED table
  <2>1. \A p \in PtyIdx : p # RAW_CCPLEX => out'[p] = out[p]
    BY <1>0, <1>2, <1>4, MirrorElsewhere
  <2>2. \A i : Delivered(i)' = Delivered(i)
    BY <1>0, <1>4, <2>1, SameDelivered
  <2> QED
    BY <1>1, <1>4, <2>2, ReadsNothing
<1> QED
  BY <1>2, <1>3, <1>4 DEF MirrorAndFeed

\* The Mux acknowledges nothing.
Unacknowledged == ack = <<>>

\* Nothing is printed at the start.
LEMMA LInitUp == LInit => UpInv
<1> SUFFICES ASSUME LInit PROVE UpInv
  OBVIOUS
<1>1. /\ batch = [c \in MuxClients |-> [stream_id |-> 0, staged |-> <<>>]]
      /\ calls = {} /\ serving = NoClient /\ frames = <<>> /\ registry_emitted = FALSE /\ uart_tx = <<>>
      /\ flushing = {} /\ put = [c \in MuxClients |-> <<>>]
      /\ alive = TRUE /\ in_escape = FALSE /\ cur_rx_stream = -1 /\ control_state = "IDLE"
      /\ virtioso_registry_json = <<>> /\ num_proc = BuiltinCount /\ out = [i \in PtyIdx |-> <<>>]
  BY DEF LInit, GSInit, CMInit, Init, InitTty, NoStream
<1>2. SinksInv
  BY <1>1 DEF SinksInv, Printing
<1>3. \A i : Delivered(i) = <<>>
  BY <1>1 DEF Delivered, StreamPtys, Registered, BuiltinCount
<1>4. <<>> \o <<>> = <<>>
  OBVIOUS
<1>5. PtysBehind
  <2>1. <<>> \in Seq(Byte)
    OBVIOUS
  <2>2. IsPrefix(<<>>, <<>>)
    <3>1. IsPrefix(<<>>, <<>> \o <<>>)
      BY <2>1, FrontIsPrefix
    <3> QED
      BY <1>4, <3>1
  <2> QED
    BY <1>1, <1>3, <2>2 DEF PtysBehind, Printing
<1>6. ASSUME NEW c \in Printing PROVE Accounts(<<>>, c)
  <2>1. Kept(c) = <<>> /\ put[c] = <<>>
    BY <1>1 DEF Kept, Printing
  <2> QED
    BY <1>3, <1>4, <2>1, CodeEmpty DEF Accounts
<1>7. Sent = <<>>
  BY <1>1, <1>4, FlattenEmpty DEF Sent
<1>8. RegistryAhead(<<>>) /\ ForStreams(<<>>) /\ <<>> \in Seq(Item)
  <2>1. ForStreams(<<>>)
    BY DEF ForStreams
  <2> QED
    BY <1>1, <1>6, <1>7, <2>1, NoItems DEF RegistryAhead
<1> QED
  BY <1>2, <1>5, <1>8 DEF UpInv, OnTheWay

\* Every step keeps it, unless the Mux acknowledges something.
LEMMA LNextUp ==
    ASSUME OneClientPerStream, HostTakesRegistry, LInv, LInv', Unacknowledged, UpInv, [LNext]_lvars
    PROVE  UpInv'
<1>1. ASSUME NEW c \in MuxClients, NEW b \in PutBytes, GuestPrints(c, b) PROVE UpInv'
  BY <1>1, GuestPrintsUp
<1>2. ASSUME NEW c \in MuxClients, SinkReturns(c) PROVE UpInv'
  BY <1>2, SinkReturnsUp
<1>3. CASE MuxUplinkStep
  <2>1. UplinkThread /\ UNCHANGED <<flushing, vars, put>>
    BY <1>3 DEF MuxUplinkStep, history
  <2> QED
    BY <2>1, PutUplinkUp, MuxReturnUp, MuxBatchUp DEF UplinkThread
<1>4. CASE MuxIrqStep
  BY <1>4, UpUnchanged DEF MuxIrqStep, IrqThread, FeedDownlinkByte, PublishByte, PutAck,
                           Unacknowledged, history
<1>5. ASSUME NEW s \in DemuxSinks, ReceiverStep(s) PROVE UpInv'
  BY <1>5, UpUnchanged DEF ReceiverStep, Receiver, Wake, TakeByte, Sleep, history
<1>6. CASE HostReceives
  BY <1>6, HostUp
<1>7. ASSUME NEW i, NEW b, UserTypes(i, b) PROVE UpInv'
  BY <1>7, UpUnchanged DEF UserTypes, Type, gsvars, cmvars
<1>8. ASSUME NEW i, HostWrites(i) PROVE UpInv'
  BY <1>8, UpUnchanged DEF HostWrites, PtyThread, ReadPty, LockTty, WriteFragment, UnlockTty,
                           gsvars, cmvars, history
<1>9. CASE HostReopens
  BY <1>9, UpUnchanged DEF HostReopens, ReopenTty, PutGreeting, gsvars, cmvars
<1>10. CASE LinkDown
  BY <1>10, UpUnchanged DEF LinkDown, history
<1>11. CASE UNCHANGED lvars
  BY <1>11, UpUnchanged DEF lvars, gsvars, cmvars, history
<1> QED
  BY <1>1, <1>2, <1>3, <1>4, <1>5, <1>6, <1>7, <1>8, <1>9, <1>10, <1>11 DEF LNext

\* The inductive invariant of the way up
LEMMA UpInductive ==
    ASSUME OneClientPerStream, HostTakesRegistry
    PROVE  LSpec /\ []Unacknowledged => [](LInv /\ UpInv)
<1>1. LInit => UpInv
  BY LInitUp
<1>2. LInv /\ LInv' /\ Unacknowledged /\ UpInv /\ [LNext]_lvars => UpInv'
  BY LNextUp
<1> QED
  BY <1>1, <1>2, LInductive, PTL DEF LSpec

\* The client that prints on a stream
LEMMA PrinterOf ==
    ASSUME OneClientPerStream, NEW i \in StreamIds
    PROVE  \E c \in Printing : StreamOf[c] = i /\ Printed(i) = put[c] /\ Printed(i)' = put'[c]
<1>1. PICK c \in MuxClients : StreamOf[c] = i
  BY DEF StreamIds
<1>2. i \in ValidStreamId /\ c \in Printing
  BY <1>1 DEF StreamIds, Printing
<1>3. \A d \in MuxClients : StreamOf[d] = i => d = c
  BY <1>1, <1>2 DEF OneClientPerStream, Printing
<1>4. (CHOOSE d \in MuxClients : StreamOf[d] = i) = c
  BY <1>1, <1>3
<1> QED
  BY <1>1, <1>2, <1>4 DEF Printed

\* A byte that reaches a PTY is the next that was printed on its stream.
LEMMA HostDelivers ==
    ASSUME OneClientPerStream, LInv, UpInv', HostReceives, OneDelivered
    PROVE  [UplinkChannels!CNext]_(UplinkChannels!cvars)
<1>1. IInv /\ UNCHANGED put
  BY MuxParts DEF HostReceives, history
<1>2. [i \in StreamIds |-> Printed(i)]' = [i \in StreamIds |-> Printed(i)]
  BY <1>1 DEF Printed
<1>3. CASE \A i \in StreamIds : Delivered(i)' = Delivered(i)
  <2>1. [i \in StreamIds |-> Delivered(i)]' = [i \in StreamIds |-> Delivered(i)]
    BY <1>3
  <2> QED
    BY <1>2, <2>1 DEF UplinkChannels!cvars
<1>4. ASSUME NEW i \in StreamIds, NEW b \in Byte, Delivered(i)' = Append(Delivered(i), b),
             \A j : j # i => Delivered(j)' = Delivered(j)
      PROVE  UplinkChannels!CNext
  <2>1. PICK c \in Printing : StreamOf[c] = i /\ Printed(i) = put[c]
    BY PrinterOf
  <2> DEFINE d == Delivered(i)
             a == Printed(i)
  <2>2. d \in Seq(Byte) /\ a \in Seq(Byte)
    <3>1. put' \in [MuxClients -> Seq(Byte)] /\ c \in MuxClients
      BY DEF UpInv, SinksInv, Printing
    <3> QED
      BY <1>1, <2>1, <3>1, DeliveredType
  <2>3. IsPrefix(Append(d, b), a)
    BY <1>1, <1>4, <2>1 DEF UpInv, PtysBehind
  <2> HIDE DEF d, a
  <2>4. Len(d) < Len(a) /\ a[Len(d) + 1] = b
    BY <2>2, <2>3, NextOfPrefix
  <2> USE DEF d, a
  <2>5. [j \in StreamIds |-> Delivered(j)]'
            = [[j \in StreamIds |-> Delivered(j)] EXCEPT ![i] = Append(@, b)]
    BY <1>4
  <2>6. UplinkChannels!Deliver(i)
    BY <1>2, <2>4, <2>5 DEF UplinkChannels!Deliver
  <2> QED
    BY <2>6 DEF UplinkChannels!CNext
<1> QED
  BY <1>3, <1>4 DEF OneDelivered

\* What a guest prints is accepted, if it has a stream.
LEMMA GuestAccepts ==
    ASSUME OneClientPerStream, UpInv, NEW c \in MuxClients, NEW b \in PutBytes, GuestPrints(c, b)
    PROVE  [UplinkChannels!CNext]_(UplinkChannels!cvars)
<1>1. /\ put \in [MuxClients -> Seq(Byte)] /\ UNCHANGED vars
      /\ put' = [put EXCEPT ![c] = Append(@, b)]
  BY DEF UpInv, SinksInv, GuestPrints
<1>2. [j \in StreamIds |-> Delivered(j)]' = [j \in StreamIds |-> Delivered(j)]
  BY <1>1, DeliveredSame
<1>3. ASSUME NEW j \in StreamIds, StreamOf[c] # j PROVE Printed(j)' = Printed(j)
  <2>1. PICK d \in Printing : StreamOf[d] = j /\ Printed(j) = put[d] /\ Printed(j)' = put'[d]
    BY PrinterOf
  <2> QED
    BY <1>1, <1>3, <2>1 DEF Printing
<1>4. CASE StreamOf[c] \notin StreamIds
  <2>1. [j \in StreamIds |-> Printed(j)]' = [j \in StreamIds |-> Printed(j)]
    BY <1>3, <1>4
  <2> QED
    BY <1>2, <2>1 DEF UplinkChannels!cvars
<1>5. CASE StreamOf[c] \in StreamIds
  <2>1. PICK i \in StreamIds : i = StreamOf[c]
    BY <1>5
  <2>2. PICK d \in Printing : StreamOf[d] = i /\ Printed(i) = put[d] /\ Printed(i)' = put'[d]
    BY PrinterOf
  <2>3. d = c
    BY <2>1, <2>2 DEF OneClientPerStream, Printing
  <2>4. Printed(i)' = Append(Printed(i), b)
    BY <1>1, <2>2, <2>3
  <2>5. [j \in StreamIds |-> Printed(j)]'
            = [[j \in StreamIds |-> Printed(j)] EXCEPT ![i] = Append(@, b)]
    BY <1>3, <2>1, <2>4
  <2>6. UplinkChannels!Accept(i, b)
    BY <1>2, <2>5 DEF UplinkChannels!Accept
  <2> QED
    BY <2>6 DEF UplinkChannels!CNext
<1> QED
  BY <1>4, <1>5

\* Every step of the link is a step of the channels.
LEMMA UplinkStep ==
    ASSUME OneClientPerStream, HostTakesRegistry, LInv, LInv', UpInv, UpInv', [LNext]_lvars
    PROVE  [UplinkChannels!CNext]_(UplinkChannels!cvars)
<1>1. ASSUME UNCHANGED <<vars, put>> PROVE UNCHANGED UplinkChannels!cvars
  <2>1. /\ [i \in StreamIds |-> Delivered(i)]' = [i \in StreamIds |-> Delivered(i)]
        /\ [i \in StreamIds |-> Printed(i)]' = [i \in StreamIds |-> Printed(i)]
    BY <1>1, DeliveredSame DEF Printed
  <2> QED
    BY <2>1 DEF UplinkChannels!cvars
<1>2. ASSUME NEW c \in MuxClients, NEW b \in PutBytes, GuestPrints(c, b)
      PROVE  [UplinkChannels!CNext]_(UplinkChannels!cvars)
  BY <1>2, GuestAccepts
<1>3. CASE HostReceives
  BY <1>3, HostUp, HostDelivers
<1>4. CASE \/ MuxUplinkStep \/ MuxIrqStep \/ LinkDown \/ HostReopens
           \/ \E c \in MuxClients : SinkReturns(c)
           \/ \E s \in DemuxSinks : ReceiverStep(s)
           \/ \E i \in TypeInto, b \in TypeBytes : UserTypes(i, b)
           \/ \E i \in PtyIdx : HostWrites(i)
           \/ UNCHANGED lvars
  <2>1. UNCHANGED <<vars, put>>
    BY <1>4 DEF MuxUplinkStep, MuxIrqStep, LinkDown, HostReopens, ReopenTty, PutGreeting, SinkReturns,
                ReceiverStep, UserTypes, Type, HostWrites, PtyThread, ReadPty, LockTty, WriteFragment,
                UnlockTty, lvars, history
  <2> QED
    BY <1>1, <2>1
<1> QED
  BY <1>2, <1>3, <1>4 DEF LNext

\* From a guest's putchar to the PTY of its stream, sinks, Mux, link and demuxer
\* are what StreamChannels promises: one FIFO channel for each stream, for any
\* number of clients, whatever bytes they print, wherever a payload is split into
\* frames, for any registry and sizes of the buffers, and wherever the thread of
\* the host ends.  It needs clients with streams of their own, a registry the host
\* has memory for, and that the Mux acknowledges nothing: emit_downlink_ack writes
\* into the frames of the other thread.
THEOREM UplinkRefined ==
    ASSUME OneClientPerStream, HostTakesRegistry
    PROVE  LSpec /\ []Unacknowledged => ImplementsUplink
<1>1. ASSUME LInit PROVE UplinkChannels!CInit
  <2>1. put = [c \in MuxClients |-> <<>>] /\ num_proc = BuiltinCount
    BY <1>1 DEF LInit, Init, InitTty
  <2>2. \A i : Delivered(i) = <<>>
    BY <2>1 DEF StreamPtys, Registered, BuiltinCount, Delivered
  <2>3. ASSUME NEW i \in StreamIds PROVE Printed(i) = <<>>
    <3>1. PICK c \in Printing : Printed(i) = put[c]
      BY PrinterOf
    <3> QED
      BY <2>1, <3>1 DEF Printing
  <2> QED
    BY <2>2, <2>3 DEF UplinkChannels!CInit
<1>2. (LInv /\ UpInv) /\ (LInv /\ UpInv)' /\ [LNext]_lvars
          => [UplinkChannels!CNext]_(UplinkChannels!cvars)
  BY UplinkStep
<1>3. LSpec => [][LNext]_lvars
  BY DEF LSpec
<1> QED
  BY <1>1, <1>2, <1>3, UpInductive, PTL DEF LSpec, ImplementsUplink, UplinkChannels!CSpec

\* Nobody is acknowledged when there is nobody to address: no ring, or nobody who
\* types.
Nobody == DemuxSinks = {} \/ TypeInto = {}

\* Bytes on the link without an escape
NoEscapes ==
    /\ rx_stream = -1 /\ ~rx_escape
    /\ \A i \in PtyIdx : keyed[i] = <<>>
    /\ tty \in Seq(Byte \ {ESC}) /\ uart_rx \in Seq(Byte \ {ESC})

QuietInv == Unacknowledged /\ (DemuxSinks = {} \/ NoEscapes)

\* The interrupt thread has nothing to acknowledge.
LEMMA IrqQuiet ==
    ASSUME LInv, QuietInv, MuxIrqStep
    PROVE  QuietInv'
<1>1. rx_stream \in DemuxSinks \cup {-1} /\ ack = <<>>
  BY MuxParts DEF IrqType, QuietInv, Unacknowledged
<1>2. CASE PublishByte
  BY <1>2 DEF QuietInv, Unacknowledged, NoEscapes, PublishByte, MuxIrqStep, hdvars, history
<1>3. CASE FeedDownlinkByte
  <2>1. CASE DemuxSinks = {}
    <3>1. rx_stream = -1 /\ -1 \notin ValidStreamId
      BY <1>1, <2>1, ProtocolBytes DEF Byte
    <3>2. ack' = <<>>
      BY <1>1, <1>3, <3>1 DEF FeedDownlinkByte, DownlinkDefault, DownlinkEscape, DownlinkStream,
                              DownlinkEscapeStart, DownlinkPayload
    <3> QED
      BY <2>1, <3>2 DEF QuietInv, Unacknowledged
  <2>2. CASE NoEscapes
    <3>1. uart_rx # <<>> /\ uart_rx' = Tail(uart_rx)
      BY <1>3 DEF FeedDownlinkByte
    <3>2. Head(uart_rx) # ESC /\ Tail(uart_rx) \in Seq(Byte \ {ESC})
      <4>1. uart_rx \in Seq(Byte \ {ESC})
        BY <2>2 DEF NoEscapes
      <4>2. Head(uart_rx) \in Byte \ {ESC} /\ Tail(uart_rx) \in Seq(Byte \ {ESC})
        BY <3>1, <4>1, HeadAndTail
      <4> QED
        BY <4>2
    <3>3. DownlinkPayload(Head(uart_rx))
      BY <1>3, <2>2, <3>2 DEF FeedDownlinkByte, DownlinkDefault, DownlinkEscape, DownlinkStream,
                              DownlinkEscapeStart, NoEscapes
    <3>4. UNCHANGED <<rx_stream, rx_escape, ack>>
      BY <3>3 DEF DownlinkPayload
    <3>5. UNCHANGED <<tty, keyed>>
      BY DEF MuxIrqStep, hdvars, history
    <3> QED
      BY <1>1, <2>2, <3>1, <3>2, <3>4, <3>5 DEF QuietInv, Unacknowledged, NoEscapes
  <2> QED
    BY <2>1, <2>2 DEF QuietInv
<1>4. CASE PutAck
  BY <1>1, <1>4 DEF PutAck
<1> QED
  BY <1>2, <1>3, <1>4 DEF MuxIrqStep, IrqThread

\* Every step keeps it so.
LEMMA LNextQuiet ==
    ASSUME Nobody, LInv, DownInv, QuietInv, [LNext]_lvars
    PROVE  QuietInv'
<1>1. ASSUME UNCHANGED <<ack, rx_stream, rx_escape, keyed, tty, uart_rx>> PROVE QuietInv'
  BY <1>1 DEF QuietInv, Unacknowledged, NoEscapes
<1>2. ASSUME NEW c \in MuxClients, SinkReturns(c) \/ \E b \in PutBytes : GuestPrints(c, b)
      PROVE  QuietInv'
  BY <1>1, <1>2 DEF SinkReturns, GuestPrints, FlushDone, Putchar, downlinkThread, hdvars, history
<1>3. CASE MuxUplinkStep
  BY <1>1, <1>3 DEF MuxUplinkStep, UplinkThread, PutUplink, MuxReturn, MuxBatch, downlinkThread, hdvars,
                    history
<1>4. ASSUME NEW s \in DemuxSinks, ReceiverStep(s) PROVE QuietInv'
  BY <1>1, <1>4 DEF ReceiverStep, Receiver, Wake, TakeByte, Sleep, downlinkThread, hdvars, history
<1>5. CASE HostReceives
  BY <1>1, <1>5 DEF HostReceives, downlinkThread, hdvars, history
<1>6. ASSUME NEW i \in TypeInto, NEW b \in TypeBytes, UserTypes(i, b) PROVE QuietInv'
  <2>1. DemuxSinks = {} /\ UNCHANGED ack
    BY <1>6 DEF Nobody, UserTypes, gsvars, cmvars, downlinkThread
  <2> QED
    BY <2>1 DEF QuietInv, Unacknowledged
<1>7. ASSUME UNCHANGED <<ack, rx_stream, rx_escape, keyed, uart_rx>>,
             NoEscapes => tty' \in Seq(Byte \ {ESC})
      PROVE  QuietInv'
  BY <1>7 DEF QuietInv, Unacknowledged, NoEscapes
<1>8. ASSUME NEW i \in PtyIdx, HostWrites(i) PROVE QuietInv'
  <2>1. UNCHANGED <<ack, rx_stream, rx_escape, keyed, uart_rx>>
    BY <1>8 DEF HostWrites, gsvars, cmvars, downlinkThread, history
  <2>2. ASSUME NoEscapes PROVE tty' = tty
    <3>1. buf[i] = <<>>
      BY <2>2 DEF DownInv, ThreadsInv, NoEscapes
    <3> QED
      BY <1>8, <3>1 DEF HostWrites, PtyThread, ReadPty, LockTty, WriteFragment, UnlockTty
  <2> QED
    BY <1>7, <2>1, <2>2 DEF NoEscapes
<1>9. CASE HostReopens
  <2>1. UNCHANGED <<ack, rx_stream, rx_escape, keyed, uart_rx>>
    BY <1>9 DEF HostReopens, gsvars, cmvars, downlinkThread
  <2>2. CASE ReopenTty
    BY <1>7, <2>1, <2>2 DEF ReopenTty, NoEscapes
  <2>3. CASE PutGreeting
    <3>1. greeting # <<>> /\ (tty' = Append(tty, Head(greeting)) \/ tty' = tty)
      BY <2>3 DEF PutGreeting
    <3>2. Head(greeting) \in Byte \ {ESC}
      BY <3>1, HeadAndTail DEF DownInv, ThreadsInv
    <3>3. ASSUME NoEscapes PROVE tty' \in Seq(Byte \ {ESC})
      BY <3>1, <3>2, <3>3 DEF NoEscapes
    <3> QED
      BY <1>7, <2>1, <3>3
  <2> QED
    BY <1>9, <2>2, <2>3 DEF HostReopens
<1>10. CASE LinkDown
  <2>1. tty # <<>> /\ uart_rx' = <<Head(tty)>> /\ tty' = Tail(tty) /\ UNCHANGED <<downlinkThread, keyed>>
    BY <1>10 DEF LinkDown, history
  <2>2. ASSUME NoEscapes PROVE NoEscapes'
    <3>1. tty \in Seq(Byte \ {ESC})
      BY <2>2 DEF NoEscapes
    <3>2. Head(tty) \in Byte \ {ESC} /\ Tail(tty) \in Seq(Byte \ {ESC})
      BY <2>1, <3>1, HeadAndTail
    <3>3. <<Head(tty)>> \in Seq(Byte \ {ESC})
      BY <3>2
    <3> QED
      BY <2>1, <2>2, <3>2, <3>3 DEF NoEscapes, downlinkThread
  <2> QED
    BY <2>1, <2>2 DEF QuietInv, Unacknowledged, downlinkThread
<1>11. CASE UNCHANGED lvars
  BY <1>1, <1>11 DEF lvars, gsvars, cmvars, downlinkThread, hdvars, history
<1> QED
  BY <1>2, <1>3, <1>4, <1>5, <1>6, <1>8, <1>9, <1>10, <1>11, IrqQuiet DEF LNext

\* A component nobody types into is never acknowledged, whatever is put on the
\* link when the device is reopened.
LEMMA NobodyAcknowledged ==
    ASSUME Nobody
    PROVE  LSpec => []Unacknowledged
<1>1. LInit => QuietInv
  BY DEF LInit, GSInit, CMInit, HDInit, QuietInv, Unacknowledged, NoEscapes
<1>2. LInv /\ DownInv /\ QuietInv /\ [LNext]_lvars => QuietInv'
  BY LNextQuiet
<1>3. QuietInv => Unacknowledged
  BY DEF QuietInv
<1> QED
  BY <1>1, <1>2, <1>3, DownInductive, PTL DEF LSpec

\* So the way up is one FIFO channel for each stream of a target that has output
\* only: nobody types, or no component has a receive ring.
THEOREM OutputOnlyRefined ==
    ASSUME OneClientPerStream, HostTakesRegistry, Nobody
    PROVE  LSpec => ImplementsUplink
BY UplinkRefined, NobodyAcknowledged, PTL

\* What is on a PTY was printed by the guest of its stream, from its beginning.
THEOREM PtysInOrder ==
    ASSUME OneClientPerStream, HostTakesRegistry
    PROVE  LSpec /\ []Unacknowledged => []UplinkIntact
<1>1. ASSUME UpInv PROVE UplinkIntact
  <2> SUFFICES ASSUME NEW i \in StreamIds PROVE IsPrefix(Delivered(i), Printed(i))
    BY DEF UplinkIntact
  <2>1. PICK c \in Printing : StreamOf[c] = i /\ Printed(i) = put[c]
    BY PrinterOf
  <2> QED
    BY <1>1, <2>1 DEF UpInv, PtysBehind
<1>2. UpInv => UplinkIntact
  BY <1>1
<1> QED
  BY <1>2, UpInductive, PTL
=============================================================================
