--------------------------- MODULE MuxExecProofs ---------------------------
(***************************************************************************)
(* Proofs about MuxExec for every set of pipes, every size of the readers' *)
(* buffers and of the channel, and every amount of output.                 *)
(***************************************************************************)
EXTENDS MuxExec, SeqLemmas

Chunks == [from: Pipes, bytes: Seq(OutBytes)]

\* What of p is in the chunks of the channel, and in the one being written.
Part(c, p)   == IF c.from = p THEN c.bytes ELSE <<>>
Parts(q, p)  == [k \in DOMAIN q |-> Part(q[k], p)]
Flow(q, p)   == FlattenSeq(Parts(q, p))

\* All that was written to p is in its place, in order: at muxd, in the main
\* task, in the channel, in the reader and in the pipe.
Taken(p)  == arrived[p] \o Flow(data, p)
Queued(p) == Taken(p) \o Flow(chan, p)
Split(p)  == written[p] = (Queued(p) \o chunk[p]) \o pipe[p]

\* A chunk may be dropped only when the connection is gone, and then nothing more
\* is handed to muxd.
InPlace == (~muxd /\ main # "connect") \/ \A p \in Pipes : Split(p)

InOrder == \A p \in Pipes : IsPrefix(arrived[p], written[p])

\* Readers and main task hold a chunk exactly while they pass it on; none is empty.
ChunksHeld ==
    /\ \A p \in Pipes : reader[p] = "send" <=> chunk[p] # <<>>
    /\ \A k \in DOMAIN chan : chan[k].bytes # <<>>
    /\ main \in {"write", "drainWrite"} <=> data # <<>>
    /\ \A k \in DOMAIN data : data[k].bytes # <<>>

\* A reader ends when nobody can write to its pipe any more.
ReadersEnd ==
    /\ main \in {"connect", "enroll"} => \A p \in Pipes : reader[p] = "none"
    /\ \A p \in Pipes : reader[p] = "done" => AtEof(p)

\* How the main task comes to its end.
Ending ==
    /\ main \in {"connect", "enroll"} => child = "none"
    /\ code # "none" => main = "over"
    /\ exit_rx => child = "exited"
    /\ main \in {"drain", "drainWrite"} => exit_rx
    /\ main = "await" => Closed
    /\ code = "child" => exit_rx /\ (Closed \/ deadline = "passed")

EInv == ETypeOK /\ ChunksHeld /\ ReadersEnd /\ Ending /\ InOrder /\ InPlace

-----------------------------------------------------------------------------
(* Flow is a homomorphism: what is queued last comes last.                 *)

\* A part of a pipe's flow is a sequence of bytes.
LEMMA PartType ==
    ASSUME NEW c \in Chunks, NEW p
    PROVE  Part(c, p) \in Seq(OutBytes)
<1>1. c.bytes \in Seq(OutBytes) /\ <<>> \in Seq(OutBytes)
  BY DEF Chunks
<1> QED
  BY <1>1 DEF Part

\* So are all parts of it.
LEMMA PartsType ==
    ASSUME NEW q \in Seq(Chunks), NEW p
    PROVE  /\ Parts(q, p) \in Seq(Seq(OutBytes)) /\ Len(Parts(q, p)) = Len(q)
           /\ \A k \in 1..Len(q) : Parts(q, p)[k] = Part(q[k], p)
<1>1. \A k \in 1..Len(q) : Part(q[k], p) \in Seq(OutBytes)
  BY ElementOfSeq, PartType
<1>2. DOMAIN q = 1..Len(q) /\ Len(q) \in Nat
  OBVIOUS
<1> QED
  BY <1>1, <1>2 DEF Parts

\* What flows of a pipe are bytes.
LEMMA FlowType ==
    ASSUME NEW q \in Seq(Chunks), NEW p
    PROVE  Flow(q, p) \in Seq(OutBytes)
BY PartsType, FlattenType DEF Flow

\* Nothing flows through an empty place.
LEMMA FlowEmpty == \A p : Flow(<<>>, p) = <<>>
<1> TAKE p
<1>1. <<>> \in Seq(Chunks)
  OBVIOUS
<1>2. Parts(<<>>, p) \in Seq(Seq(OutBytes)) /\ Len(Parts(<<>>, p)) = Len(<<>>)
  BY <1>1, PartsType, Zenon
<1>3. Parts(<<>>, p) = <<>>
  BY <1>2, EmptySeq
<1> QED
  BY <1>3, FlattenEmpty DEF Flow

\* A chunk at the end of a place comes last in its pipe's flow.
LEMMA FlowAppend ==
    ASSUME NEW q \in Seq(Chunks), NEW c \in Chunks, NEW p
    PROVE  Flow(Append(q, c), p) = Flow(q, p) \o Part(c, p)
<1>1. Append(q, c) \in Seq(Chunks) /\ Part(c, p) \in Seq(OutBytes)
  BY DEF Part, Chunks
<1>2. Parts(Append(q, c), p) = Append(Parts(q, p), Part(c, p))
  <2>1. Len(Append(q, c)) = Len(q) + 1 /\ Len(q) \in Nat
    OBVIOUS
  <2> DEFINE s == Parts(q, p)
             t == Parts(Append(q, c), p)
  <2>a. s \in Seq(Seq(OutBytes)) /\ Len(s) = Len(q) /\ \A k \in 1..Len(q) : s[k] = Part(q[k], p)
    BY PartsType, Zenon
  <2>b. /\ t \in Seq(Seq(OutBytes)) /\ Len(t) = Len(Append(q, c))
        /\ \A k \in 1..Len(Append(q, c)) : t[k] = Part(Append(q, c)[k], p)
    BY <1>1, PartsType, Zenon
  <2> HIDE DEF s, t
  <2>2. \A k \in 1..(Len(q) + 1) : t[k] = Append(s, Part(c, p))[k]
    BY <1>1, <2>1, <2>a, <2>b
  <2>3. /\ Append(s, Part(c, p)) \in Seq(Seq(OutBytes))
        /\ Len(t) = Len(q) + 1
        /\ Len(Append(s, Part(c, p))) = Len(q) + 1
    BY <1>1, <2>1, <2>a, <2>b, SMTT(30)
  <2> QED
    BY <2>b, <2>2, <2>3, SeqEqual DEF s, t
<1> QED
  BY <1>1, <1>2, PartsType, FlattenAppend DEF Flow

\* The flow of one chunk is its data.
LEMMA FlowOne ==
    ASSUME NEW c \in Chunks, NEW p
    PROVE  Flow(<<c>>, p) = Part(c, p)
<1>1. <<c>> = Append(<<>>, c) /\ <<>> \in Seq(Chunks)
  OBVIOUS
<1>2. <<>> \o Part(c, p) = Part(c, p)
  BY DEF Part, Chunks
<1> QED
  BY <1>1, <1>2, FlowAppend, FlowEmpty

\* The first chunk comes first.
LEMMA FlowFirst ==
    ASSUME NEW q \in Seq(Chunks), q # <<>>, NEW p
    PROVE  Flow(q, p) = Part(Head(q), p) \o Flow(Tail(q), p)
<1>1. /\ Tail(q) \in Seq(Chunks) /\ Head(q) \in Chunks /\ Head(q) = q[1]
      /\ Len(Tail(q)) = Len(q) - 1 /\ \A k \in 1..Len(Tail(q)) : Tail(q)[k] = q[k + 1]
      /\ Len(q) \in Nat \ {0}
  OBVIOUS
<1>2. Parts(q, p) \in Seq(Seq(OutBytes)) /\ Parts(q, p) # <<>>
  BY <1>1, PartsType
<1>3. Head(Parts(q, p)) = Part(Head(q), p)
  BY <1>1, <1>2, PartsType
<1>4. Tail(Parts(q, p)) = Parts(Tail(q), p)
  <2> DEFINE s == Parts(q, p)
             t == Parts(Tail(q), p)
  <2>1. s \in Seq(Seq(OutBytes)) /\ Len(s) = Len(q) /\ \A k \in 1..Len(q) : s[k] = Part(q[k], p)
    BY PartsType, Zenon
  <2>2. /\ t \in Seq(Seq(OutBytes)) /\ Len(t) = Len(Tail(q))
        /\ \A k \in 1..Len(Tail(q)) : t[k] = Part(Tail(q)[k], p)
    BY <1>1, PartsType, Zenon
  <2> HIDE DEF s, t
  <2>3. s # <<>>
    BY <1>1, <2>1
  <2>4. /\ Tail(s) \in Seq(Seq(OutBytes)) /\ Len(Tail(s)) = Len(t)
        /\ \A k \in 1..Len(t) : Tail(s)[k] = t[k]
    BY <1>1, <2>1, <2>2, <2>3
  <2> QED
    BY <2>2, <2>4, SeqEqual DEF s, t
<1> QED
  BY <1>2, <1>3, <1>4, FlattenFirst DEF Flow

-----------------------------------------------------------------------------
(* Types.                                                                  *)

\* Types, initially
LEMMA EInitType == EInit => ETypeOK
<1>1. <<>> \in Seq(OutBytes) /\ <<>> \in Seq(Chunks)
  OBVIOUS
<1>2. Len(<<>>) <= ChanCap /\ Len(<<>>) <= 1 /\ 0 \in 0..MaxOut
  BY ExecAssumption
<1>3. ASSUME EInit
      PROVE  /\ holders \in [Pipes -> SUBSET {"child", "grandchild"}]
             /\ reader \in [Pipes -> {"none", "read", "send", "done"}]
             /\ {pipe, chunk, written, arrived} \subseteq [Pipes -> Seq(OutBytes)]
  BY <1>1, <1>3 DEF EInit
<1> QED
  BY <1>1, <1>2, <1>3 DEF EInit, ETypeOK, Chunks

\* One byte more, or fewer, of a function to sequences of bytes
LEMMA BytesAppend ==
    ASSUME NEW f \in [Pipes -> Seq(OutBytes)], NEW p \in Pipes, NEW b \in OutBytes
    PROVE  [f EXCEPT ![p] = Append(@, b)] \in [Pipes -> Seq(OutBytes)]
OBVIOUS

\* Types, when child, user or terminal step
LEMMA SurroundingsType ==
    ASSUME ETypeOK, Surroundings \/ DeadlinePasses \/ ReportExit
    PROVE  ETypeOK'
<1>1. CASE MuxdChanges \/ DeadlinePasses \/ ReportExit
  <2>1. CASE MuxdChanges
    BY <2>1 DEF ETypeOK, MuxdChanges, command, readers, mainVars
  <2>2. CASE DeadlinePasses
    BY <2>2 DEF ETypeOK, DeadlinePasses, command, readers, mainVars
  <2>3. CASE ReportExit
    BY <2>3 DEF ETypeOK, ReportExit, command, readers, mainVars
  <2> QED
    BY <1>1, <2>1, <2>2, <2>3
<1>2. ASSUME NEW p \in Pipes, Output(p) PROVE ETypeOK'
  <2>1. total + 1 \in OutBytes /\ total' \in 0..MaxOut
    BY <1>2, ExecAssumption DEF ETypeOK, Output, OutBytes
  <2>2. pipe' \in [Pipes -> Seq(OutBytes)] /\ written' \in [Pipes -> Seq(OutBytes)]
    BY <1>2, <2>1, BytesAppend DEF ETypeOK, Output
  <2> QED
    BY <1>2, <2>1, <2>2 DEF ETypeOK, Output, readers, mainVars
<1>3. ASSUME NEW p \in Pipes, Fork(p) \/ ClosePipe(p) PROVE ETypeOK'
  <2>1. PICK H \in SUBSET {"child", "grandchild"} : holders' = [holders EXCEPT ![p] = H]
    <3>1. holders[p] \in SUBSET {"child", "grandchild"}
      BY DEF ETypeOK
    <3>2. CASE Fork(p)
      BY <3>1, <3>2 DEF Fork
    <3>3. CASE ClosePipe(p)
      BY <3>1, <3>3 DEF ClosePipe
    <3> QED
      BY <1>3, <3>2, <3>3
  <2>2. holders' \in [Pipes -> SUBSET {"child", "grandchild"}]
    BY <2>1 DEF ETypeOK
  <2> QED
    BY <1>3, <2>2 DEF ETypeOK, Fork, ClosePipe, readers, mainVars
<1>4. CASE ChildExits
  <2>1. holders' \in [Pipes -> SUBSET {"child", "grandchild"}]
    BY <1>4 DEF ETypeOK, ChildExits
  <2> QED
    BY <1>4, <2>1 DEF ETypeOK, ChildExits, readers, mainVars
<1> QED
  BY <1>1, <1>2, <1>3, <1>4 DEF Surroundings

\* Types, when a reader thread steps
LEMMA ReaderType ==
    ASSUME ETypeOK, NEW p \in Pipes, Reader(p)
    PROVE  ETypeOK'
<1>1. CASE ReadPipe(p)
  <2>1. PICK n \in 1..ReadSize :
          /\ n <= Len(pipe[p])
          /\ chunk' = [chunk EXCEPT ![p] = SubSeq(pipe[p], 1, n)]
          /\ pipe' = [pipe EXCEPT ![p] = SubSeq(@, n + 1, Len(@))]
    BY <1>1 DEF ReadPipe
  <2>2. pipe[p] \in Seq(OutBytes)
    BY DEF ETypeOK
  <2>3. SubSeq(pipe[p], 1, n) \in Seq(OutBytes)
    BY <2>1, <2>2
  <2>4. SubSeq(pipe[p], n + 1, Len(pipe[p])) \in Seq(OutBytes)
    BY <2>1, <2>2
  <2>5. chunk' \in [Pipes -> Seq(OutBytes)] /\ pipe' \in [Pipes -> Seq(OutBytes)]
    BY <2>1, <2>3, <2>4 DEF ETypeOK
  <2>6. reader' \in [Pipes -> {"none", "read", "send", "done"}]
    BY <1>1 DEF ETypeOK, ReadPipe
  <2> QED
    BY <1>1, <2>5, <2>6 DEF ETypeOK, ReadPipe, mainVars
<1>2. CASE ReadEof(p)
  <2>1. reader' \in [Pipes -> {"none", "read", "send", "done"}]
    BY <1>2 DEF ETypeOK, ReadEof
  <2> QED
    BY <1>2, <2>1 DEF ETypeOK, ReadEof, command, mainVars
<1>3. CASE SendChunk(p)
  <2>1. reader' \in [Pipes -> {"none", "read", "send", "done"}]
    BY <1>3 DEF ETypeOK, SendChunk
  <2>2. chunk' \in [Pipes -> Seq(OutBytes)]
    BY <1>3 DEF ETypeOK, SendChunk
  <2>3. [from |-> p, bytes |-> chunk[p]] \in Chunks
    BY DEF ETypeOK, Chunks
  <2>4. chan' \in Seq(Chunks) /\ Len(chan') <= ChanCap
    BY <1>3, <2>3, ExecAssumption DEF ETypeOK, SendChunk, HasRoom, Chunks
  <2> QED
    BY <1>3, <2>1, <2>2, <2>4 DEF ETypeOK, SendChunk, command, mainVars, Chunks
<1> QED
  BY <1>1, <1>2, <1>3 DEF Reader

\* What the main task writes: the first byte of the chunk in data.
LEMMA ByteWritten ==
    ASSUME ETypeOK, ChunksHeld, main \in {"write", "drainWrite"}
    PROVE  /\ data = <<data[1]>> /\ data[1] \in Chunks /\ data[1].from \in Pipes
           /\ data[1].bytes \in Seq(OutBytes) /\ data[1].bytes # <<>>
<1>1. data \in Seq(Chunks) /\ Len(data) <= 1 /\ data # <<>>
  BY DEF ETypeOK, ChunksHeld, Chunks
<1>2. Len(data) = 1
  <2>1. Len(data) \in Nat \ {0}
    BY <1>1, EmptySeq, Zenon
  <2>2. Len(data) <= 1
    BY <1>1
  <2>3. \A n \in Nat \ {0} : n <= 1 => n = 1
    OBVIOUS
  <2> QED
    BY <2>1, <2>2, <2>3, Zenon
<1>3. data = <<data[1]>> /\ data[1] \in Chunks /\ 1 \in DOMAIN data
  BY <1>1, <1>2
<1> QED
  BY <1>3 DEF ChunksHeld, Chunks

\* Types, when the main thread steps
LEMMA MainType ==
    ASSUME ETypeOK, ChunksHeld, Main
    PROVE  ETypeOK'
<1>1. CASE Connect \/ ChannelCloses \/ AwaitExit \/ NoticeExit \/ GiveUp
  BY <1>1 DEF ETypeOK, Connect, ChannelCloses, AwaitExit, NoticeExit, GiveUp, Exit,
              command, readers
<1>2. CASE Enroll
  BY <1>2 DEF ETypeOK, Enroll, Exit
<1>3. CASE TakeChunk
  <2>1. chan \in Seq(Chunks) /\ chan # <<>>
    BY <1>3 DEF ETypeOK, TakeChunk, Chunks
  <2>2. Tail(chan) \in Seq(Chunks) /\ Head(chan) \in Chunks /\ Len(Tail(chan)) = Len(chan) - 1
    BY <2>1
  <2>3. <<Head(chan)>> \in Seq(Chunks) /\ Len(<<Head(chan)>>) <= 1
    BY <2>2
  <2>4. Len(Tail(chan)) <= ChanCap
    BY <2>1, <2>2, ExecAssumption DEF ETypeOK
  <2>5. chan' = Tail(chan) /\ data' = <<Head(chan)>> /\ main' \in {"write", "drainWrite"}
    BY <1>3 DEF TakeChunk
  <2> QED
    BY <1>3, <2>2, <2>3, <2>4, <2>5 DEF ETypeOK, TakeChunk, command, readers, Chunks
<1>4. CASE WriteByte
  <2> DEFINE p == data[1].from
             b == data[1].bytes
  <2>0. main \in {"write", "drainWrite"}
    BY <1>4 DEF WriteByte
  <2>1. p \in Pipes /\ b \in Seq(OutBytes) /\ b # <<>>
    BY <2>0, ByteWritten
  <2>2. /\ arrived' = [arrived EXCEPT ![p] = Append(@, Head(b))]
        /\ data' = IF Len(b) = 1 THEN <<>> ELSE <<[from |-> p, bytes |-> Tail(b)]>>
    BY <1>4 DEF WriteByte
  <2> HIDE DEF p, b
  <2>3. Head(b) \in OutBytes /\ Tail(b) \in Seq(OutBytes)
    BY <2>1
  <2>4. arrived' \in [Pipes -> Seq(OutBytes)]
    BY <2>1, <2>2, <2>3, BytesAppend DEF ETypeOK
  <2>5. [from |-> p, bytes |-> Tail(b)] \in Chunks
    BY <2>1, <2>3 DEF Chunks
  <2>6. data' \in Seq(Chunks) /\ Len(data') <= 1
    BY <2>2, <2>5
  <2>7. main' \in {"write", "drainWrite", "select", "drain"}
    BY <1>4, <2>0 DEF WriteByte
  <2> QED
    BY <1>4, <2>4, <2>6, <2>7 DEF ETypeOK, WriteByte, command, readers, Chunks
<1>5. CASE WriteFails
  <2>1. <<>> \in Seq(Chunks) /\ Len(<<>>) <= 1
    OBVIOUS
  <2>2. data' = <<>> /\ main' \in {"drain", "over"} /\ code' \in {"none", "child", "failed"}
    BY <1>5 DEF WriteFails, Exit, ETypeOK
  <2> QED
    BY <1>5, <2>1, <2>2 DEF ETypeOK, WriteFails, command, readers, Chunks
<1> QED
  BY <1>1, <1>2, <1>3, <1>4, <1>5 DEF Main

-----------------------------------------------------------------------------
(* The tasks.                                                              *)

Control == ChunksHeld /\ ReadersEnd /\ Ending

\* The parts about who is where, initially
LEMMA EInitControl == EInit => Control
BY DEF EInit, Control, ChunksHeld, ReadersEnd, Ending

\* Child, user and terminal leave the threads where they are.
LEMMA SurroundingsControl ==
    ASSUME ETypeOK, Control, main # "over", Surroundings \/ DeadlinePasses \/ ReportExit
    PROVE  Control'
<1>0. UNCHANGED <<readers, chan, main, data, code>>
  BY DEF Surroundings, DeadlinePasses, ReportExit, MuxdChanges, Output, Fork, ClosePipe,
         ChildExits, readers, mainVars
<1>1. ChunksHeld'
  BY <1>0 DEF Control, ChunksHeld, readers
<1>2. ReadersEnd'
  <2>1. ASSUME NEW p \in Pipes, reader'[p] = "done" PROVE AtEof(p)'
    <3>1. pipe[p] = <<>> /\ holders[p] = {} /\ holders \in [Pipes -> SUBSET {"child", "grandchild"}]
      BY <1>0, <2>1 DEF Control, ReadersEnd, AtEof, readers, ETypeOK
    <3>2. CASE MuxdChanges \/ DeadlinePasses \/ ReportExit
      BY <3>1, <3>2 DEF MuxdChanges, DeadlinePasses, ReportExit, command, AtEof
    <3>3. ASSUME NEW q \in Pipes, Output(q) PROVE AtEof(p)'
      <4>1. q # p
        BY <3>1, <3>3 DEF Output
      <4> QED
        BY <3>1, <3>3, <4>1 DEF Output, AtEof, ETypeOK
    <3>4. ASSUME NEW q \in Pipes, Fork(q) \/ ClosePipe(q) PROVE AtEof(p)'
      <4>1. q # p
        BY <3>1, <3>4 DEF Fork, ClosePipe
      <4> QED
        BY <3>1, <3>4, <4>1 DEF Fork, ClosePipe, AtEof, ETypeOK
    <3>5. CASE ChildExits
      BY <3>1, <3>5 DEF ChildExits, AtEof
    <3> QED
      BY <3>2, <3>3, <3>4, <3>5 DEF Surroundings
  <2> QED
    BY <1>0, <2>1 DEF Control, ReadersEnd, readers
<1>3. Ending'
  <2>1. main \in {"connect", "enroll"} => child' = child
    <3>1. ChildExits => child = "runs"
      BY DEF ChildExits
    <3>2. ~ChildExits => child' = child
      BY DEF Surroundings, DeadlinePasses, ReportExit, MuxdChanges, Output, Fork, ClosePipe, command
    <3> QED
      BY <3>1, <3>2 DEF Control, Ending
  <2>2. exit_rx => exit_rx'
    BY DEF Surroundings, DeadlinePasses, ReportExit, MuxdChanges, Output, Fork, ClosePipe, ChildExits
  <2>3. exit_rx' => child' = "exited"
    BY DEF Surroundings, DeadlinePasses, ReportExit, MuxdChanges, Output, Fork, ClosePipe,
           ChildExits, command, Control, Ending
  <2>4. Closed' = Closed
    BY <1>0 DEF Closed, readers
  <2>5. code' = "none"
    BY <1>0 DEF Control, Ending
  <2> QED
    BY <1>0, <2>1, <2>2, <2>3, <2>4, <2>5 DEF Control, Ending
<1> QED
  BY <1>1, <1>2, <1>3 DEF Control

\* A reader ends only when its pipe has ended and its chunk is sent.
LEMMA ReaderControl ==
    ASSUME ETypeOK, Control, main # "over", NEW p \in Pipes, Reader(p)
    PROVE  Control'
<1>0. UNCHANGED <<child, holders, exit_rx, mainVars, muxd>> /\ reader[p] \notin {"none", "done"}
  BY DEF Reader, ReadPipe, ReadEof, SendChunk, command
<1>1. main \notin {"connect", "enroll", "await"} /\ code = "none"
  BY <1>0 DEF Control, ReadersEnd, Ending, Closed
<1>2. ChunksHeld'
  <2>1. \A q \in Pipes : reader'[q] = "send" <=> chunk'[q] # <<>>
    <3>1. CASE ReadPipe(p)
      <4>1. PICK n \in 1..ReadSize :
              n <= Len(pipe[p]) /\ chunk' = [chunk EXCEPT ![p] = SubSeq(pipe[p], 1, n)]
        BY <3>1 DEF ReadPipe
      <4>2. SubSeq(pipe[p], 1, n) # <<>>
        <5>1. pipe[p] \in Seq(OutBytes)
          BY DEF ETypeOK
        <5>2. Len(SubSeq(pipe[p], 1, n)) = n
          BY <4>1, <5>1
        <5>3. n # 0 /\ Len(<<>>) = 0
          OBVIOUS
        <5> QED
          BY <5>2, <5>3, Zenon
      <4> QED
        BY <3>1, <4>1, <4>2 DEF ReadPipe, ETypeOK, Control, ChunksHeld
    <3>2. CASE ReadEof(p)
      BY <3>2 DEF ReadEof, ETypeOK, Control, ChunksHeld
    <3>3. CASE SendChunk(p)
      BY <3>3 DEF SendChunk, ETypeOK, Control, ChunksHeld
    <3> QED
      BY <3>1, <3>2, <3>3 DEF Reader
  <2>2. \A k \in DOMAIN chan' : chan'[k].bytes # <<>>
    <3>1. CASE ReadPipe(p) \/ ReadEof(p)
      BY <3>1 DEF ReadPipe, ReadEof, Control, ChunksHeld
    <3>2. CASE SendChunk(p)
      <4> DEFINE c == [from |-> p, bytes |-> chunk[p]]
      <4>1. c \in Chunks /\ c.bytes # <<>> /\ chan \in Seq(Chunks) /\ chan' = Append(chan, c)
        BY <3>2 DEF SendChunk, ETypeOK, Control, ChunksHeld, Chunks
      <4>2. /\ DOMAIN chan' = 1..(Len(chan) + 1) /\ DOMAIN chan = 1..Len(chan) /\ Len(chan) \in Nat
            /\ \A k \in 1..Len(chan) : chan'[k] = chan[k]
            /\ chan'[Len(chan) + 1] = c
        BY <4>1
      <4>3. \A k \in 1..(Len(chan) + 1) : k \in 1..Len(chan) \/ k = Len(chan) + 1
        BY <4>2
      <4> HIDE DEF c
      <4> QED
        BY <4>1, <4>2, <4>3 DEF Control, ChunksHeld
    <3> QED
      BY <3>1, <3>2 DEF Reader
  <2> QED
    BY <1>0, <2>1, <2>2 DEF Control, ChunksHeld, mainVars
<1>3. ReadersEnd'
  <2>1. ASSUME NEW q \in Pipes, reader'[q] = "done" PROVE AtEof(q)'
    <3>1. CASE ReadEof(p)
      BY <2>1, <3>1 DEF ReadEof, AtEof, Control, ReadersEnd, ETypeOK, command
    <3>2. CASE ReadPipe(p)
      BY <2>1, <3>2 DEF ReadPipe, AtEof, Control, ReadersEnd, ETypeOK
    <3>3. CASE SendChunk(p)
      BY <2>1, <3>3 DEF SendChunk, AtEof, Control, ReadersEnd, ETypeOK, command
    <3> QED
      BY <3>1, <3>2, <3>3 DEF Reader
  <2> QED
    BY <1>0, <1>1, <2>1 DEF ReadersEnd, mainVars
<1>4. Ending'
  BY <1>0, <1>1 DEF Control, Ending, mainVars
<1> QED
  BY <1>2, <1>3, <1>4 DEF Control

\* The main thread ends only when both readers have.
LEMMA MainControl ==
    ASSUME ETypeOK, Control, main # "over", Main
    PROVE  Control'
<1>1. ReadersEnd'
  <2>1. CASE Enroll
    BY <2>1 DEF Enroll, Exit, Control, ReadersEnd, AtEof
  <2>2. CASE ~Enroll
    <3>1. UNCHANGED <<command, readers>> /\ (main' \in {"connect", "enroll"} => main = "connect")
      BY <2>2 DEF Main, Connect, TakeChunk, WriteByte, WriteFails, ChannelCloses, AwaitExit,
                  NoticeExit, GiveUp, Exit
    <3> QED
      BY <3>1 DEF Control, ReadersEnd, AtEof, command, readers
  <2> QED
    BY <2>1, <2>2
<1>2. CASE Connect \/ Enroll \/ ChannelCloses \/ AwaitExit \/ NoticeExit \/ GiveUp
  <2>1. ChunksHeld'
    <3>1. UNCHANGED <<chunk, chan, data>> /\ {main, main'} \cap {"write", "drainWrite"} = {}
      BY <1>2 DEF Connect, Enroll, ChannelCloses, AwaitExit, NoticeExit, GiveUp, Exit, readers
    <3>2. \A p \in Pipes : reader'[p] = "send" <=> reader[p] = "send"
      BY <1>2 DEF Connect, Enroll, ChannelCloses, AwaitExit, NoticeExit, GiveUp, readers,
                  Control, ReadersEnd
    <3> QED
      BY <3>1, <3>2 DEF Control, ChunksHeld
  <2>2. Ending'
    <3>1. CASE Connect \/ Enroll
      BY <3>1 DEF Connect, Enroll, Exit, Control, Ending, command
    <3>2. CASE ChannelCloses \/ AwaitExit
      BY <3>2 DEF ChannelCloses, AwaitExit, Exit, Control, Ending, command, readers, Closed
    <3>3. CASE NoticeExit \/ GiveUp
      BY <3>3 DEF NoticeExit, GiveUp, Exit, Control, Ending, command, readers, Closed
    <3> QED
      BY <1>2, <3>1, <3>2, <3>3
  <2> QED
    BY <1>1, <2>1, <2>2 DEF Control
<1>3. CASE TakeChunk
  <2>1. chan \in Seq(Chunks) /\ chan # <<>> /\ \A k \in DOMAIN chan : chan[k].bytes # <<>>
    BY <1>3 DEF ETypeOK, TakeChunk, Chunks, Control, ChunksHeld
  <2>2. /\ Head(chan).bytes # <<>> /\ DOMAIN <<Head(chan)>> = {1} /\ <<Head(chan)>>[1] = Head(chan)
        /\ \A k \in DOMAIN Tail(chan) : Tail(chan)[k].bytes # <<>>
    <3>1. /\ DOMAIN chan = 1..Len(chan) /\ Len(chan) \in Nat \ {0} /\ Head(chan) = chan[1]
          /\ DOMAIN Tail(chan) = 1..(Len(chan) - 1)
          /\ \A k \in 1..(Len(chan) - 1) : Tail(chan)[k] = chan[k + 1]
      BY <2>1
    <3>2. \A k \in 1..(Len(chan) - 1) : k + 1 \in 1..Len(chan)
      BY <3>1
    <3> QED
      BY <2>1, <3>1, <3>2
  <2>3. chan' = Tail(chan) /\ data' = <<Head(chan)>> /\ main' \in {"write", "drainWrite"}
    BY <1>3 DEF TakeChunk
  <2>4. ChunksHeld'
    BY <1>3, <2>2, <2>3 DEF TakeChunk, Control, ChunksHeld, readers
  <2>5. Ending'
    BY <1>3 DEF TakeChunk, Control, Ending, command
  <2> QED
    BY <1>1, <2>4, <2>5 DEF Control
<1>4. CASE WriteByte
  <2> DEFINE p == data[1].from
             b == data[1].bytes
  <2>0. main \in {"write", "drainWrite"}
    BY <1>4 DEF WriteByte
  <2>1. b \in Seq(OutBytes) /\ b # <<>>
    BY <2>0, ByteWritten DEF Control
  <2>2. data' = IF Len(b) = 1 THEN <<>> ELSE <<[from |-> p, bytes |-> Tail(b)]>>
    BY <1>4 DEF WriteByte
  <2>3. /\ main' \in {"select", "drain"} => data' = <<>>
        /\ main' \in {"write", "drainWrite"} => data' # <<>>
        /\ main' \in {"select", "drain", "write", "drainWrite"}
        /\ main' \in {"drain", "drainWrite"} => main = "drainWrite"
    BY <1>4, <2>0 DEF WriteByte
  <2> HIDE DEF b, p
  <2>4. \A k \in DOMAIN data' : data'[k].bytes # <<>>
    <3>1. Len(b) # 1 => Tail(b) # <<>>
      BY <2>1, HeadAndTail
    <3> QED
      BY <2>2, <3>1
  <2>5. ChunksHeld'
    BY <1>4, <2>3, <2>4 DEF WriteByte, Control, ChunksHeld, readers
  <2>6. Ending'
    BY <1>4, <2>0, <2>3 DEF WriteByte, Control, Ending, command
  <2> QED
    BY <1>1, <2>5, <2>6 DEF Control
<1>5. CASE WriteFails
  <2>1. ChunksHeld'
    BY <1>5 DEF WriteFails, Exit, Control, ChunksHeld, readers
  <2>2. Ending'
    BY <1>5 DEF WriteFails, Exit, Control, Ending, command
  <2> QED
    BY <1>1, <2>1, <2>2 DEF Control
<1> QED
  BY <1>2, <1>3, <1>4, <1>5 DEF Main

-----------------------------------------------------------------------------
(* What was written stays in place.                                        *)

\* What is under way of a pipe are bytes, wherever it is.
LEMMA PlacesType ==
    ASSUME ETypeOK, NEW p \in Pipes
    PROVE  /\ written[p] \in Seq(OutBytes) /\ arrived[p] \in Seq(OutBytes)
           /\ Flow(data, p) \in Seq(OutBytes) /\ Flow(chan, p) \in Seq(OutBytes)
           /\ chunk[p] \in Seq(OutBytes) /\ pipe[p] \in Seq(OutBytes)
           /\ Taken(p) \in Seq(OutBytes) /\ Queued(p) \in Seq(OutBytes)
<1>1. data \in Seq(Chunks) /\ chan \in Seq(Chunks)
  BY DEF ETypeOK, Chunks
<1>2. Flow(data, p) \in Seq(OutBytes) /\ Flow(chan, p) \in Seq(OutBytes)
  BY <1>1, FlowType
<1>3. arrived[p] \in Seq(OutBytes)
  BY DEF ETypeOK
<1>4. Taken(p) \in Seq(OutBytes)
  BY <1>2, <1>3 DEF Taken
<1>5. Queued(p) \in Seq(OutBytes)
  BY <1>2, <1>4 DEF Queued
<1> QED
  BY <1>2, <1>4, <1>5 DEF ETypeOK

\* What has arrived is the beginning of what was written.
LEMMA SplitIsPrefix ==
    ASSUME ETypeOK, NEW p \in Pipes, Split(p)
    PROVE  IsPrefix(arrived[p], written[p])
<1> DEFINE a == arrived[p]
           b == Flow(data, p)
           c == Flow(chan, p)
           d == chunk[p]
           e == pipe[p]
<1>1. /\ a \in Seq(OutBytes) /\ b \in Seq(OutBytes) /\ c \in Seq(OutBytes)
      /\ d \in Seq(OutBytes) /\ e \in Seq(OutBytes)
  BY PlacesType
<1>2. written[p] = (((a \o b) \o c) \o d) \o e
  BY DEF Split, Queued, Taken
<1> HIDE DEF a, b, c, d, e
<1> DEFINE f == b \o c
           g == f \o d
           h == g \o e
<1>3. f \in Seq(OutBytes) /\ g \in Seq(OutBytes) /\ h \in Seq(OutBytes)
  BY <1>1
<1>4. (a \o b) \o c = a \o f
  BY <1>1
<1>5. (a \o f) \o d = a \o g
  <2> HIDE DEF f
  <2>1. Regrouped(a, f, d)
    BY <1>1, <1>3, Regroup, Zenon
  <2> QED
    BY <2>1, Zenon DEF Regrouped
<1>6. (a \o g) \o e = a \o h
  <2> HIDE DEF f, g
  <2>1. Regrouped(a, g, e)
    BY <1>1, <1>3, Regroup, Zenon
  <2> QED
    BY <2>1, Zenon DEF Regrouped
<1> HIDE DEF f, g, h
<1>7. written[p] = a \o h
  BY <1>2, <1>4, <1>5, <1>6, Zenon
<1>8. IsPrefix(a, a \o h)
  BY <1>1, <1>3, FrontIsPrefix
<1> QED
  BY <1>7, <1>8 DEF a

\* Nothing is under way initially.
LEMMA EInitFlow == EInit => InPlace /\ InOrder
<1>1. SUFFICES ASSUME EInit PROVE InPlace /\ InOrder
  OBVIOUS
<1>2. ETypeOK
  BY <1>1, EInitType
<1>3. <<>> \o <<>> = <<>>
  OBVIOUS
<1>4. \A p \in Pipes : Split(p)
  BY <1>1, <1>3, FlowEmpty DEF Split, Queued, Taken, EInit
<1> QED
  BY <1>2, <1>4, SplitIsPrefix DEF InPlace, InOrder

\* The child writes: the bytes are at the end of its pipe.
LEMMA OutputSplit ==
    ASSUME ETypeOK, \A p \in Pipes : Split(p), NEW q \in Pipes, Output(q)
    PROVE  \A p \in Pipes : Split(p)'
<1> TAKE p \in Pipes
<1>1. UNCHANGED <<arrived, data, chan, chunk>>
  BY DEF Output, readers, mainVars
<1>2. CASE p # q
  <2>1. written'[p] = written[p] /\ pipe'[p] = pipe[p]
    BY <1>2 DEF Output, ETypeOK
  <2> QED
    BY <1>1, <2>1 DEF Split, Queued, Taken
<1>3. CASE p = q
  <2> DEFINE a == Queued(p) \o chunk[p]
             e == pipe[p]
             x == <<total + 1>>
  <2>1. total + 1 \in OutBytes /\ x \in Seq(OutBytes)
    BY ExecAssumption DEF Output, ETypeOK, OutBytes
  <2>2. a \in Seq(OutBytes) /\ e \in Seq(OutBytes) /\ written[p] \in Seq(OutBytes)
    BY PlacesType
  <2>3. written'[p] = written[p] \o x /\ pipe'[p] = e \o x
    <3>1. written'[p] = Append(written[p], total + 1) /\ pipe'[p] = Append(pipe[p], total + 1)
      BY <1>3 DEF Output, ETypeOK
    <3> QED
      BY <2>1, <2>2, <3>1, AppendIsConcat
  <2>4. written[p] = a \o e
    BY DEF Split
  <2> SUFFICES written'[p] = a \o (e \o x)
    BY <1>1, <2>3 DEF Split, Queued, Taken
  <2> HIDE DEF a, e, x
  <2>5. a \o (e \o x) = (a \o e) \o x
    BY <2>1, <2>2
  <2> QED
    BY <2>3, <2>4, <2>5, Zenon
<1> QED
  BY <1>2, <1>3

\* A reader takes the first bytes of its pipe.
LEMMA ReadPipeSplit ==
    ASSUME ETypeOK, Control, \A p \in Pipes : Split(p), NEW q \in Pipes, ReadPipe(q)
    PROVE  \A p \in Pipes : Split(p)'
<1> TAKE p \in Pipes
<1>1. UNCHANGED <<arrived, data, chan, written>>
  BY DEF ReadPipe, mainVars
<1>2. PICK n \in 1..ReadSize :
          /\ n <= Len(pipe[q])
          /\ chunk' = [chunk EXCEPT ![q] = SubSeq(pipe[q], 1, n)]
          /\ pipe' = [pipe EXCEPT ![q] = SubSeq(@, n + 1, Len(@))]
  BY DEF ReadPipe
<1>3. CASE p # q
  <2>1. chunk'[p] = chunk[p] /\ pipe'[p] = pipe[p]
    BY <1>2, <1>3 DEF ETypeOK
  <2> QED
    BY <1>1, <2>1 DEF Split, Queued, Taken
<1>4. CASE p = q
  <2> DEFINE a == Queued(p)
             e == pipe[p]
             u == SubSeq(e, 1, n)
             v == SubSeq(e, n + 1, Len(e))
  <2>1. chunk[p] = <<>>
    BY <1>4 DEF ReadPipe, Control, ChunksHeld
  <2>2. a \in Seq(OutBytes) /\ e \in Seq(OutBytes) /\ n <= Len(e)
    BY <1>2, <1>4, PlacesType
  <2>3. chunk'[p] = u /\ pipe'[p] = v
    BY <1>2, <1>4 DEF ETypeOK
  <2>4. u \o v = e /\ u \in Seq(OutBytes) /\ v \in Seq(OutBytes)
    <3>1. /\ 1 \in 1..(Len(e) + 1) /\ n \in (1 - 1)..Len(e) /\ Len(e) \in n..Len(e)
      BY <2>2, ExecAssumption
    <3>2. u \o v = SubSeq(e, 1, Len(e))
      BY <2>2, <3>1, ConcatAdjacentSubSeq
    <3>3. SubSeq(e, 1, Len(e)) = e
      BY <2>2, SubSeqFull
    <3> QED
      BY <2>2, <3>1, <3>2, <3>3
  <2>5. written[p] = (a \o <<>>) \o e
    BY <2>1 DEF Split
  <2> SUFFICES written[p] = (a \o u) \o v
    BY <1>1, <2>3 DEF Split, Queued, Taken
  <2> HIDE DEF a, e, u, v
  <2>6. u \in Seq(OutBytes) /\ v \in Seq(OutBytes)
    BY <2>4
  <2>7. a \o <<>> = a
    BY <2>2
  <2>8. Regrouped(a, u, v)
    BY <2>2, <2>6, Regroup, Zenon
  <2> QED
    BY <2>4, <2>5, <2>7, <2>8, Zenon DEF Regrouped
<1> QED
  BY <1>3, <1>4

\* A chunk goes to the end of the channel.
LEMMA SendChunkSplit ==
    ASSUME ETypeOK, \A p \in Pipes : Split(p), NEW q \in Pipes, SendChunk(q)
    PROVE  \A p \in Pipes : Split(p)'
<1> TAKE p \in Pipes
<1> DEFINE c == [from |-> q, bytes |-> chunk[q]]
           t == Taken(p)
           f == Flow(chan, p)
           d == chunk[p]
<1>1. UNCHANGED <<arrived, data, written, pipe>> /\ chan' = Append(chan, c)
  BY DEF SendChunk, mainVars, command
<1>2. c \in Chunks /\ chan \in Seq(Chunks)
  BY DEF ETypeOK, Chunks
<1>3. Flow(chan', p) = f \o Part(c, p)
  BY <1>1, <1>2, FlowAppend
<1>4. t \in Seq(OutBytes) /\ f \in Seq(OutBytes) /\ d \in Seq(OutBytes)
  BY PlacesType
<1>5. (t \o (f \o Part(c, p))) \o chunk'[p] = (t \o f) \o d
  <2>1. CASE p = q
    <3>1. Part(c, p) = d /\ chunk'[p] = <<>>
      BY <2>1 DEF Part, SendChunk, ETypeOK
    <3> HIDE DEF t, f, d
    <3>2. t \o (f \o d) = (t \o f) \o d /\ t \o (f \o d) \in Seq(OutBytes)
      BY <1>4
    <3>3. (t \o (f \o d)) \o <<>> = t \o (f \o d)
      BY <3>2, ConcatEmptySeq
    <3> QED
      BY <3>1, <3>2, <3>3, Zenon
  <2>2. CASE p # q
    <3>1. Part(c, p) = <<>> /\ chunk'[p] = d
      BY <2>2 DEF Part, SendChunk, ETypeOK
    <3> HIDE DEF t, f, d
    <3>2. f \o <<>> = f
      BY <1>4
    <3> QED
      BY <3>1, <3>2, Zenon
  <2> QED
    BY <2>1, <2>2
<1>6. Taken(p)' = t
  BY <1>1 DEF Taken
<1>7. written[p] = ((t \o f) \o d) \o pipe[p]
  BY DEF Split, Queued
<1> HIDE DEF c, t, f, d
<1> QED
  BY <1>1, <1>3, <1>5, <1>6, <1>7 DEF Split, Queued

\* The main thread takes the first chunk.
LEMMA TakeChunkSplit ==
    ASSUME ETypeOK, Control, \A p \in Pipes : Split(p), TakeChunk
    PROVE  \A p \in Pipes : Split(p)'
<1> TAKE p \in Pipes
<1> DEFINE a == arrived[p]
           u == Part(Head(chan), p)
           v == Flow(Tail(chan), p)
<1>1. /\ UNCHANGED <<arrived, written, pipe, chunk>> /\ chan # <<>> /\ data = <<>>
      /\ data' = <<Head(chan)>> /\ chan' = Tail(chan)
  BY DEF TakeChunk, command, readers, Control, ChunksHeld
<1>2. chan \in Seq(Chunks)
  BY DEF ETypeOK, Chunks
<1>3. Head(chan) \in Chunks /\ Tail(chan) \in Seq(Chunks)
  BY <1>1, <1>2
<1>4. a \in Seq(OutBytes) /\ u \in Seq(OutBytes) /\ v \in Seq(OutBytes)
  BY <1>3, PlacesType, FlowType, PartType
<1>5. Flow(data, p) = <<>> /\ Flow(chan, p) = u \o v
  BY <1>1, <1>2, FlowEmpty, FlowFirst
<1>6. Flow(data', p) = u /\ Flow(chan', p) = v
  BY <1>1, <1>3, FlowOne
<1>7. Queued(p) = (a \o <<>>) \o (u \o v)
  BY <1>5 DEF Queued, Taken
<1>8. Queued(p)' = (a \o u) \o v
  BY <1>1, <1>6 DEF Queued, Taken
<1>9. Queued(p)' = Queued(p)
  <2> HIDE DEF a, u, v
  <2>1. a \o <<>> = a
    BY <1>4
  <2>2. a \o (u \o v) = (a \o u) \o v
    BY <1>4
  <2> QED
    BY <1>7, <1>8, <2>1, <2>2, Zenon
<1> QED
  BY <1>1, <1>9 DEF Split

\* A byte of the chunk is written to the terminal.
LEMMA WriteByteSplit ==
    ASSUME ETypeOK, Control, \A p \in Pipes : Split(p), WriteByte
    PROVE  \A p \in Pipes : Split(p)'
<1> TAKE p \in Pipes
<1> DEFINE q == data[1].from
           b == data[1].bytes
           a == arrived[p]
           x == <<Head(b)>>
           y == Tail(b)
<1>1. data = <<data[1]>> /\ data[1] \in Chunks /\ q \in Pipes /\ b \in Seq(OutBytes) /\ b # <<>>
  BY ByteWritten DEF WriteByte, Control
<1>2. /\ UNCHANGED <<written, pipe, chunk, chan>>
      /\ arrived' = [arrived EXCEPT ![q] = Append(@, Head(b))]
      /\ data' = IF Len(b) = 1 THEN <<>> ELSE <<[from |-> q, bytes |-> y]>>
  BY DEF WriteByte, command, readers
<1>3. Flow(data, p) = Part(data[1], p)
  BY <1>1, FlowOne
<1>4. /\ a \in Seq(OutBytes) /\ x \in Seq(OutBytes) /\ y \in Seq(OutBytes) /\ Head(b) \in OutBytes
      /\ b = x \o y /\ (Len(b) = 1 => y = <<>>)
  <2>1. a \in Seq(OutBytes)
    BY PlacesType
  <2>2. Head(b) \in OutBytes /\ y \in Seq(OutBytes) /\ b = x \o y /\ (Len(b) = 1 => y = <<>>)
    BY <1>1, HeadAndTail
  <2>3. x \in Seq(OutBytes)
    BY <2>2
  <2> QED
    BY <2>1, <2>2, <2>3
<1>5. Flow(data', p) = IF p = q THEN y ELSE <<>>
  <2>1. CASE Len(b) = 1
    BY <1>2, <1>4, <2>1, FlowEmpty
  <2>2. CASE Len(b) # 1
    <3> DEFINE c == [from |-> q, bytes |-> y]
    <3>1. c \in Chunks /\ Part(c, p) = IF p = q THEN y ELSE <<>>
      BY <1>1, <1>4 DEF Chunks, Part
    <3>2. data' = <<c>>
      BY <1>2, <2>2
    <3> HIDE DEF c
    <3> QED
      BY <3>1, <3>2, FlowOne
  <2> QED
    BY <2>1, <2>2
<1>6. Taken(p)' = Taken(p)
  <2>1. CASE p = q
    <3>1. arrived'[p] = Append(arrived[p], Head(b))
      BY <1>2, <2>1 DEF ETypeOK
    <3>2. Taken(p)' = Append(a, Head(b)) \o y
      BY <1>5, <2>1, <3>1 DEF Taken
    <3>3. Taken(p) = a \o b
      BY <1>3, <2>1 DEF Taken, Part
    <3>4. Append(a, Head(b)) = a \o x
      BY <1>4
    <3> HIDE DEF a, x, y
    <3>5. a \in Seq(OutBytes) /\ x \in Seq(OutBytes) /\ y \in Seq(OutBytes)
      BY <1>4
    <3>6. (a \o x) \o y = a \o (x \o y)
      BY <3>5
    <3>7. b = x \o y
      BY <1>4
    <3> QED
      BY <3>2, <3>3, <3>4, <3>6, <3>7, Zenon
  <2>2. CASE p # q
    <3>1. arrived'[p] = arrived[p]
      BY <1>2, <2>2 DEF ETypeOK
    <3>2. Flow(data, p) = <<>>
      BY <1>3, <2>2 DEF Part
    <3> QED
      BY <1>5, <2>2, <3>1, <3>2 DEF Taken
  <2> QED
    BY <2>1, <2>2
<1> QED
  BY <1>2, <1>6 DEF Split, Queued

\* The connection is gone: nothing arrives any more, more may be written.
LEMMA LostFlow ==
    ASSUME ETypeOK, ENext, InOrder, ~muxd, main # "connect"
    PROVE  InPlace' /\ InOrder'
<1>1. ~muxd' /\ main' # "connect" /\ arrived' = arrived
  <2>1. CASE MuxdChanges
    BY <2>1 DEF MuxdChanges, mainVars
  <2>2. CASE Main
    <3>1. ~WriteByte /\ ~Connect
      BY DEF WriteByte, Connect
    <3>2. CASE Enroll \/ ChannelCloses \/ AwaitExit \/ NoticeExit \/ GiveUp
      BY <3>2 DEF Enroll, ChannelCloses, AwaitExit, NoticeExit, GiveUp, Exit
    <3>3. CASE TakeChunk
      BY <3>3 DEF TakeChunk
    <3>4. CASE WriteFails
      BY <3>4 DEF WriteFails, Exit
    <3> QED
      BY <2>2, <3>1, <3>2, <3>3, <3>4 DEF Main
  <2>3. CASE DeadlinePasses \/ ReportExit \/ ChildExits
             \/ \E p \in Pipes : Fork(p) \/ ClosePipe(p) \/ Output(p) \/ Reader(p)
    <3>1. CASE DeadlinePasses \/ ReportExit \/ ChildExits
      BY <3>1 DEF DeadlinePasses, ReportExit, ChildExits, mainVars
    <3>2. ASSUME NEW p \in Pipes, Fork(p) \/ ClosePipe(p) \/ Output(p) \/ Reader(p)
          PROVE  UNCHANGED <<muxd, main, arrived>>
      BY <3>2 DEF Fork, ClosePipe, Output, Reader, ReadPipe, ReadEof, SendChunk, mainVars
    <3> QED
      BY <2>3, <3>1, <3>2
  <2> QED
    BY <2>1, <2>2, <2>3 DEF ENext, Surroundings
<1>2. \A p \in Pipes : written'[p] = written[p] \/ written'[p] = Append(written[p], total + 1)
  BY DEF ENext, Surroundings, MuxdChanges, Output, Fork, ClosePipe, ChildExits, DeadlinePasses,
         ReportExit, Reader, ReadPipe, ReadEof, SendChunk, Main, Connect, Enroll, TakeChunk,
         WriteByte, WriteFails, ChannelCloses, AwaitExit, NoticeExit, GiveUp, Exit, command, ETypeOK
<1>3. ASSUME NEW p \in Pipes PROVE IsPrefix(arrived[p], Append(written[p], total + 1))
  <2>1. IsPrefix(arrived[p], written[p]) /\ arrived[p] \in Seq(OutBytes) /\ written[p] \in Seq(OutBytes)
    BY DEF InOrder, ETypeOK
  <2> QED
    BY <2>1, PrefixAppend
<1>4. InOrder'
  BY <1>1, <1>2, <1>3 DEF InOrder
<1> QED
  BY <1>1, <1>4 DEF InPlace

\* No step loses, adds or reorders a byte of a pipe.
LEMMA FlowStep ==
    ASSUME ETypeOK, ETypeOK', Control, InOrder, InPlace, ENext
    PROVE  InPlace' /\ InOrder'
<1>1. CASE ~muxd /\ main # "connect"
  BY <1>1, LostFlow
<1>2. CASE ~(~muxd /\ main # "connect")
  <2>0. \A p \in Pipes : Split(p)
    BY <1>2 DEF InPlace
  <2>1. (\A p \in Pipes : Split(p)') => InPlace' /\ InOrder'
    <3>1. ASSUME NEW p \in Pipes, Split(p)' PROVE IsPrefix(arrived[p], written[p])'
      BY <3>1, SplitIsPrefix, PTL
    <3> QED
      BY <3>1 DEF InPlace, InOrder
  <2>2. CASE MuxdChanges \/ DeadlinePasses \/ ReportExit \/ ChildExits \/ Connect \/ Enroll
             \/ ChannelCloses \/ AwaitExit \/ NoticeExit \/ GiveUp
             \/ \E p \in Pipes : Fork(p) \/ ClosePipe(p) \/ ReadEof(p)
    <3>1. UNCHANGED <<arrived, data, chan, chunk, pipe, written>>
      BY <2>2 DEF MuxdChanges, DeadlinePasses, ReportExit, ChildExits, Connect, Enroll,
                  ChannelCloses, AwaitExit, NoticeExit, GiveUp, Fork, ClosePipe, ReadEof,
                  command, readers, mainVars
    <3>2. \A p \in Pipes : Split(p)'
      BY <2>0, <3>1 DEF Split, Queued, Taken
    <3> QED
      BY <2>1, <3>2
  <2>3. CASE WriteFails
    <3>1. UNCHANGED <<muxd, arrived, written>> /\ ~muxd /\ main' # "connect"
      BY <2>3 DEF WriteFails, Exit, command
    <3> QED
      BY <3>1 DEF InPlace, InOrder
  <2>4. ASSUME NEW p \in Pipes, Output(p) \/ ReadPipe(p) \/ SendChunk(p)
        PROVE  InPlace' /\ InOrder'
    BY <2>0, <2>1, <2>4, OutputSplit, ReadPipeSplit, SendChunkSplit
  <2>5. CASE TakeChunk \/ WriteByte
    BY <2>0, <2>1, <2>5, TakeChunkSplit, WriteByteSplit
  <2> QED
    BY <2>2, <2>3, <2>4, <2>5 DEF ENext, Surroundings, Reader, Main
<1> QED
  BY <1>1, <1>2

-----------------------------------------------------------------------------
\* EInv by its parts
LEMMA EInvParts == EInv <=> ETypeOK /\ Control /\ InOrder /\ InPlace
BY DEF EInv, Control

\* EInv, initially
LEMMA EInitEInv == EInit => EInv
BY EInitType, EInitControl, EInitFlow, EInvParts

\* Every step keeps EInv.
LEMMA ENextEInv == EInv /\ [ENext]_evars => EInv'
<1>1. ASSUME EInv, ENext PROVE EInv'
  <2>1. ETypeOK /\ Control /\ InOrder /\ InPlace /\ ChunksHeld
    BY <1>1 DEF EInv, Control
  <2>2. main # "over" /\ \/ Surroundings \/ DeadlinePasses \/ ReportExit \/ Main
                         \/ \E p \in Pipes : Reader(p)
    BY <1>1 DEF ENext
  <2>3. ETypeOK'
    BY <2>1, <2>2, SurroundingsType, ReaderType, MainType
  <2>4. Control'
    BY <2>1, <2>2, SurroundingsControl, ReaderControl, MainControl
  <2>5. InPlace' /\ InOrder'
    BY <1>1, <2>1, <2>3, FlowStep
  <2> QED
    BY <2>3, <2>4, <2>5 DEF EInv, Control
<1>2. ASSUME EInv, UNCHANGED evars PROVE EInv'
  <2> USE <1>2 DEF evars, command, readers, mainVars
  <2>1. ETypeOK' /\ ChunksHeld'
    BY DEF EInv, ETypeOK, ChunksHeld
  <2>2. ReadersEnd' /\ Ending'
    BY DEF EInv, ReadersEnd, Ending, AtEof, Closed
  <2>3. InOrder' /\ InPlace'
    BY DEF EInv, InOrder, InPlace, Split, Queued, Taken
  <2> QED
    BY <2>1, <2>2, <2>3 DEF EInv
<1> QED
  BY <1>1, <1>2

\* EInv is an invariant of mux-exec.
LEMMA EInductive == ESpec => []EInv
BY EInitEInv, ENextEInv, PTL DEF ESpec

\* The state of mux-exec is well formed; the channel never holds more chunks than
\* its capacity, and the main task one at most.
THEOREM ExecTypeCorrect == ESpec => []ETypeOK
<1>1. EInv => ETypeOK
  BY DEF EInv
<1> QED
  BY <1>1, EInductive, PTL

\* mux-exec ends with the command's exit code only when the command is over, and
\* then muxd has all output unless the connection broke or time ran out.
THEOREM ExitComplete == ESpec => []CleanExitIsComplete
<1>1. ASSUME EInv PROVE CleanExitIsComplete
  <2>1. SUFFICES ASSUME code = "child" PROVE child = "exited" /\ (muxd /\ deadline # "passed" => arrived = written)
    BY DEF CleanExitIsComplete
  <2>2. exit_rx /\ child = "exited" /\ (Closed \/ deadline = "passed") /\ main = "over"
    BY <1>1, <2>1 DEF EInv, Ending
  <2>3. ASSUME muxd, deadline # "passed", NEW p \in Pipes PROVE arrived[p] = written[p]
    <3>1. chan = <<>> /\ chunk[p] = <<>> /\ pipe[p] = <<>> /\ data = <<>>
      BY <1>1, <2>2, <2>3 DEF EInv, ChunksHeld, ReadersEnd, AtEof, Closed
    <3>2. written[p] = (((arrived[p] \o <<>>) \o <<>>) \o <<>>) \o <<>>
      BY <1>1, <2>3, <3>1, FlowEmpty DEF EInv, InPlace, Split, Queued, Taken
    <3>3. arrived[p] \in Seq(OutBytes)
      BY <1>1 DEF EInv, ETypeOK
    <3>4. arrived[p] \o <<>> = arrived[p]
      BY <3>3
    <3> QED
      BY <3>2, <3>4, Zenon
  <2>4. arrived \in [Pipes -> Seq(OutBytes)] /\ written \in [Pipes -> Seq(OutBytes)]
    BY <1>1 DEF EInv, ETypeOK
  <2> QED
    BY <2>2, <2>3, <2>4
<1> QED
  BY <1>1, EInductive, PTL

\* A byte written to the socket is the next one that was written to its pipe:
\* what has arrived is still the beginning of what was written.
LEMMA WriteByteDelivers ==
    ASSUME EInv, InOrder', WriteByte
    PROVE  PipeChannels!CNext
<1> DEFINE q == data[1].from
           x == Head(data[1].bytes)
<1>1. q \in Pipes /\ data[1].bytes \in Seq(OutBytes) /\ data[1].bytes # <<>>
  BY ByteWritten DEF EInv, WriteByte
<1>2. x \in OutBytes
  BY <1>1, HeadAndTail
<1>3. UNCHANGED written /\ arrived' = [arrived EXCEPT ![q] = Append(@, x)]
  BY DEF WriteByte, command
<1> HIDE DEF q, x
<1>4. arrived \in [Pipes -> Seq(OutBytes)] /\ written[q] \in Seq(OutBytes) /\ arrived[q] \in Seq(OutBytes)
  BY <1>1 DEF EInv, ETypeOK
<1>5. IsPrefix(Append(arrived[q], x), written[q])
  BY <1>1, <1>3, <1>4 DEF InOrder
<1>6. Len(arrived[q]) < Len(written[q]) /\ written[q][Len(arrived[q]) + 1] = x
  BY <1>2, <1>4, <1>5, NextOfPrefix
<1>7. PipeChannels!Deliver(q)
  BY <1>3, <1>6 DEF PipeChannels!Deliver
<1> QED
  BY <1>1, <1>7 DEF PipeChannels!CNext

\* mux-exec carries the output of the command through its two readers, the shared
\* channel and the main task as StreamChannels promises: each pipe is a FIFO of
\* its own, and nothing is invented, reordered or taken for the other pipe's.
THEOREM PipesRefined == ESpec => ImplementsPipes
<1>1. EInit => PipeChannels!CInit
  BY DEF EInit, PipeChannels!CInit
<1>2. ASSUME EInv, EInv', [ENext]_evars
      PROVE  [PipeChannels!CNext]_(PipeChannels!cvars)
  <2>1. CASE WriteByte
    BY <1>2, <2>1, WriteByteDelivers DEF EInv
  <2>2. ASSUME NEW p \in Pipes, Output(p) PROVE PipeChannels!CNext
    <3>1. total + 1 \in OutBytes
      BY <1>2, <2>2, ExecAssumption DEF EInv, ETypeOK, Output, OutBytes
    <3>2. PipeChannels!Accept(p, total + 1)
      BY <2>2 DEF Output, PipeChannels!Accept, mainVars
    <3> QED
      BY <3>1, <3>2 DEF PipeChannels!CNext
  <2>3. CASE UNCHANGED evars
    BY <2>3 DEF evars, command, mainVars, PipeChannels!cvars
  <2>4. CASE MuxdChanges \/ DeadlinePasses \/ ReportExit \/ ChildExits
             \/ \E p \in Pipes : Fork(p) \/ ClosePipe(p) \/ Reader(p)
    BY <2>4 DEF MuxdChanges, DeadlinePasses, ReportExit, ChildExits, Fork, ClosePipe, Reader,
                ReadPipe, ReadEof, SendChunk, command, mainVars, PipeChannels!cvars
  <2>5. CASE Connect \/ Enroll \/ TakeChunk \/ WriteFails \/ ChannelCloses \/ AwaitExit
             \/ NoticeExit \/ GiveUp
    BY <2>5 DEF Connect, Enroll, TakeChunk, WriteFails, ChannelCloses, AwaitExit, NoticeExit,
                GiveUp, command, PipeChannels!cvars
  <2> QED
    BY <1>2, <2>1, <2>2, <2>3, <2>4, <2>5 DEF ENext, Surroundings, Main
<1>3. ESpec => [][ENext]_evars
  BY DEF ESpec
<1> QED
  BY <1>1, <1>2, <1>3, EInductive, PTL DEF ESpec, ImplementsPipes, PipeChannels!CSpec
=============================================================================
