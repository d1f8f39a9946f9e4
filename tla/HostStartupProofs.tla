------------------------- MODULE HostStartupProofs -------------------------
(***************************************************************************)
(* Proofs about the demuxer behind its link, with main beside it, for      *)
(* every series of records, every loss and every interleaving of the two.  *)
(***************************************************************************)
EXTENDS HostStartup, HostDemuxProofs

USE ByteMaxAssumption, ControlTypesAssumption, MaxPtyAssumption, OuterAssumption

\* The threads main's loop has started so far.
BuiltinsStarted == \A i \in 0..(BuiltinCount - 1) : i < i_pty => i \in threads

\* DemuxInv, because a thread of main's loop may find its stream without an input
\* direction: ThreadsOnlyForInput holds of the tty thread alone.
SInv ==
    /\ DemuxInv
    /\ wire \in Seq(Byte) /\ sent \in Seq(Record)
    /\ i_pty \in 0..MaxPty
    /\ BuiltinsStarted

\* What is put on the link are bytes.
LEMMA EncodeOuterType ==
    ASSUME NEW bytes \in Seq(Byte)
    PROVE  EncodeOuter(bytes) \in Seq(Byte)
<1> DEFINE parts == [i \in DOMAIN bytes |->
                        IF bytes[i] = OUTER_ESC THEN <<OUTER_ESC, OUTER_ESC>> ELSE <<bytes[i]>>]
<1>1. parts \in Seq(Seq(Byte))
  <2>1. DOMAIN bytes = 1..Len(bytes) /\ Len(bytes) \in Nat /\ OUTER_ESC \in Byte
    BY DEF OUTER_ESC, Byte
  <2>2. \A i \in 1..Len(bytes) : parts[i] \in Seq(Byte)
    <3> SUFFICES ASSUME NEW i \in 1..Len(bytes) PROVE parts[i] \in Seq(Byte)
      OBVIOUS
    <3>1. bytes[i] \in Byte
      OBVIOUS
    <3>2. <<OUTER_ESC, OUTER_ESC>> \in Seq(Byte) /\ <<bytes[i]>> \in Seq(Byte)
      BY <2>1, <3>1
    <3>3. parts[i] = IF bytes[i] = OUTER_ESC THEN <<OUTER_ESC, OUTER_ESC>> ELSE <<bytes[i]>>
      BY <2>1
    <3> HIDE DEF parts
    <3> QED
      BY <3>2, <3>3, Zenon
  <2>3. parts \in [1..Len(bytes) -> Seq(Byte)]
    <3>1. parts = [i \in 1..Len(bytes) |-> parts[i]]
      BY <2>1
    <3> HIDE DEF parts
    <3> QED
      BY <2>2, <3>1
  <2> HIDE DEF parts
  <2> QED
    BY <2>1, <2>3
<1> HIDE DEF parts
<1>2. FlattenSeq(parts) \in Seq(Byte)
  BY <1>1, FlattenType
<1> QED
  BY <1>2 DEF EncodeOuter, parts

\* The fields of records
LEMMA RecordFields ==
    ASSUME NEW f \in Record
    PROVE  /\ f.kind \in {"data", "connected", "disconnected", "registry", "ack", "plain"}
           /\ f.kind = "data" => f.id \in ValidStreamId /\ f.payload \in Seq(Byte)
           /\ f.kind \in {"connected", "disconnected"} => f.id \in Byte /\ f.name \in Texts(1)
           /\ f.kind = "registry" => f.text \in Texts(0)
           /\ f.kind = "plain" => f.payload \in Seq(Byte \ {ESC})
BY DEF Record

\* The number n has two digits, the length bytes of a record.
LEMMA TwoDigits ==
    ASSUME NEW n \in Nat, n < (ByteMax + 1) * (ByteMax + 1)
    PROVE  /\ n \div (ByteMax + 1) \in Byte /\ n % (ByteMax + 1) \in Byte
           /\ (n \div (ByteMax + 1)) * (ByteMax + 1) + (n % (ByteMax + 1)) = n
           /\ LenBytes(n) = <<n \div (ByteMax + 1), n % (ByteMax + 1)>>
           /\ LenBytes(n) \in Seq(Byte)
<1> DEFINE m == ByteMax + 1
<1>1. m \in Nat \ {0} /\ m - 1 = ByteMax
  OBVIOUS
<1>2. n \div m \in Byte
  BY <1>1, HighDigit DEF Byte
<1>3. n % m \in Byte
  BY <1>1 DEF Byte
<1>4. (n \div m) * m + (n % m) = n
  BY <1>1, Digits
<1> QED
  BY <1>2, <1>3, <1>4 DEF LenBytes

\* The bytes of a control record of this type
ControlBytes(type, text) == <<ESC, CONTROL, type>> \o LenBytes(Len(text)) \o text

\* The rest of a control record, after each of its first bytes
FromLo(text)      == <<Len(text) % (ByteMax + 1)>> \o text
FromHi(text)      == <<Len(text) \div (ByteMax + 1)>> \o FromLo(text)
FromType(t, text) == <<t>> \o FromHi(text)
FromControl(t, text) == <<CONTROL>> \o FromType(t, text)

\* A control record, byte after byte
LEMMA RecordBytes ==
    ASSUME NEW t \in Byte, NEW text \in Seq(Byte), Len(text) < (ByteMax + 1) * (ByteMax + 1)
    PROVE  /\ FromLo(text) \in Seq(Byte) /\ FromHi(text) \in Seq(Byte)
           /\ FromType(t, text) \in Seq(Byte) /\ FromControl(t, text) \in Seq(Byte)
           /\ ControlBytes(t, text) = <<ESC>> \o FromControl(t, text)
           /\ ControlBytes(t, text) \in Seq(Byte)
<1> DEFINE h == Len(text) \div (ByteMax + 1)
           l == Len(text) % (ByteMax + 1)
<1>1. h \in Byte /\ l \in Byte /\ LenBytes(Len(text)) = <<h, l>> /\ ESC \in Byte /\ CONTROL \in Byte
  BY TwoDigits, ProtocolBytes
<1> HIDE DEF h, l
<1>2. FromLo(text) = <<l>> \o text /\ FromLo(text) \in Seq(Byte)
  BY <1>1, OneInTurn DEF FromLo, l
<1>3. FromHi(text) = <<h>> \o FromLo(text) /\ FromHi(text) \in Seq(Byte)
  BY <1>1, <1>2, OneInTurn DEF FromHi, h
<1>4. FromType(t, text) \in Seq(Byte)
  BY <1>3, OneInTurn DEF FromType
<1>5. FromControl(t, text) \in Seq(Byte)
  BY <1>1, <1>4, OneInTurn DEF FromControl
<1>6. <<ESC>> \o FromControl(t, text) \in Seq(Byte)
  BY <1>1, <1>5, OneInTurn
<1>7. ControlBytes(t, text) = <<ESC>> \o FromControl(t, text)
  <2> DEFINE a == <<ESC, CONTROL, t>>
             b == <<h, l>>
  <2>1. a \in Seq(Byte) /\ b \in Seq(Byte)
    BY <1>1
  <2>2. b \o text = FromHi(text)
    <3>1. <<h, l>> \o text = <<h>> \o (<<l>> \o text)
      BY <1>1, TwoInTurn, Zenon
    <3> QED
      BY <1>2, <1>3, <3>1, Zenon
  <2>3. Threefold(ESC, CONTROL, t, FromHi(text))
    BY <1>1, <1>3, ThreeInTurn, Zenon
  <2>4. a \o FromHi(text) = <<ESC>> \o FromControl(t, text)
    BY <2>3, Zenon DEF Threefold, FromControl, FromType
  <2>5. ControlBytes(t, text) = (a \o b) \o text
    BY <1>1, Zenon DEF ControlBytes
  <2> HIDE DEF a, b
  <2>6. Regrouped(a, b, text)
    BY <2>1, Regroup, Zenon
  <2> QED
    BY <2>2, <2>4, <2>5, <2>6, Zenon DEF Regrouped
<1> QED
  BY <1>2, <1>3, <1>4, <1>5, <1>6, <1>7, Zenon

\* What the announcement of a stream and a registry are, as control records
LEMMA ControlRecords ==
    ASSUME NEW f \in Record
    PROVE  /\ f.kind \in {"connected", "disconnected"} =>
                  /\ <<f.id>> \o f.name \in Seq(Byte)
                  /\ Len(<<f.id>> \o f.name) \in 1..((ByteMax + 1) * (ByteMax + 1) - 1)
                  /\ EncodeFrame(f) = ControlBytes(IF f.kind = "connected" THEN STREAM_CONNECTED
                                                   ELSE STREAM_DISCONNECTED, <<f.id>> \o f.name)
           /\ f.kind = "registry" =>
                  /\ f.text \in Seq(Byte) /\ Len(f.text) < (ByteMax + 1) * (ByteMax + 1)
                  /\ EncodeFrame(f) = ControlBytes(STREAM_REGISTRY, f.text)
<1>1. ASSUME f.kind \in {"connected", "disconnected"}
      PROVE  /\ <<f.id>> \o f.name \in Seq(Byte)
             /\ Len(<<f.id>> \o f.name) \in 1..((ByteMax + 1) * (ByteMax + 1) - 1)
             /\ EncodeFrame(f) = ControlBytes(IF f.kind = "connected" THEN STREAM_CONNECTED
                                              ELSE STREAM_DISCONNECTED, <<f.id>> \o f.name)
  <2> DEFINE i == <<f.id>>
             n == f.name
             t == IF f.kind = "connected" THEN STREAM_CONNECTED ELSE STREAM_DISCONNECTED
             a == <<ESC, CONTROL, t>>
             b == LenBytes(1 + Len(n))
             N == (ByteMax + 1) * (ByteMax + 1)
  <2>1. f.id \in Byte /\ n \in Seq(Byte) /\ 1 + Len(n) < N /\ N \in Nat
    BY <1>1, RecordFields DEF Texts
  <2>2. i \in Seq(Byte) /\ Len(i) = 1 /\ t \in Byte
    BY <2>1, ProtocolBytes
  <2>3. a \in Seq(Byte) /\ b \in Seq(Byte)
    <3>1. a \in Seq(Byte)
      BY <2>2, ProtocolBytes
    <3>2. 1 + Len(n) \in Nat
      BY <2>1
    <3>3. b \in Seq(Byte)
      BY <2>1, <3>2, TwoDigits
    <3> QED
      BY <3>1, <3>3
  <2>4. EncodeFrame(f) = ((a \o b) \o i) \o n
    BY <1>1 DEF EncodeFrame, EncodeControl
  <2> HIDE DEF i, n, t, a, b, N
  <2>5. i \o n \in Seq(Byte) /\ Len(i \o n) = 1 + Len(n) /\ Len(n) \in Nat
    <3>1. i \o n \in Seq(Byte)
      BY <2>1, <2>2, ByteConcat
    <3>2. Len(i \o n) = Len(i) + Len(n)
      BY <2>1, <2>2, LenOfConcat
    <3>3. Len(n) \in Nat
      BY <2>1
    <3> QED
      BY <2>2, <3>1, <3>2, <3>3
  <2>6. a \o b \in Seq(Byte)
    BY <2>3, ByteConcat
  <2>7. Regrouped(a \o b, i, n)
    BY <2>1, <2>2, <2>6, Regroup, Zenon
  <2>8. ControlBytes(t, i \o n) = (a \o b) \o (i \o n)
    BY <2>5 DEF ControlBytes, a, b
  <2>9. Len(i \o n) \in 1..(N - 1)
    BY <2>1, <2>5
  <2> QED
    BY <2>4, <2>5, <2>7, <2>8, <2>9, Zenon DEF Regrouped, i, n, t, N
<1>2. ASSUME f.kind = "registry"
      PROVE  /\ f.text \in Seq(Byte) /\ Len(f.text) < (ByteMax + 1) * (ByteMax + 1)
             /\ EncodeFrame(f) = ControlBytes(STREAM_REGISTRY, f.text)
  <2>1. f.text \in Seq(Byte) /\ 0 + Len(f.text) < (ByteMax + 1) * (ByteMax + 1)
    BY <1>2, RecordFields DEF Texts
  <2>2. EncodeFrame(f) = ControlBytes(STREAM_REGISTRY, f.text)
    BY <1>2 DEF EncodeFrame, EncodeRegistry, ControlBytes
  <2> QED
    BY <2>1, <2>2
<1> QED
  BY <1>1, <1>2

\* A data frame, byte after byte
LEMMA DataBytes ==
    ASSUME NEW id \in Byte, NEW e \in Seq(Byte)
    PROVE  /\ EscapePayload(e) \o DataEnd \in Seq(Byte)
           /\ <<id>> \o (EscapePayload(e) \o DataEnd) \in Seq(Byte)
           /\ EncodeData(id, e) = <<ESC>> \o (<<id>> \o (EscapePayload(e) \o DataEnd))
           /\ EncodeData(id, e) \in Seq(Byte)
<1> DEFINE p == EscapePayload(e)
           a == <<ESC, id>>
           s == p \o DataEnd
<1>1. p \in Seq(Byte) /\ DataEnd \in Seq(Byte) /\ ESC \in Byte /\ a \in Seq(Byte)
  BY EscapeIs, ProtocolBytes DEF DataEnd
<1>2. EncodeData(id, e) = (a \o p) \o DataEnd
  BY DEF EncodeData, DataEnd
<1>3. s \in Seq(Byte)
  BY <1>1, ByteConcat
<1>4. a \o s = <<ESC>> \o (<<id>> \o s)
  <2> HIDE DEF s
  <2> QED
    BY <1>1, <1>3, TwoInTurn
<1>5. a \o s \in Seq(Byte) /\ <<id>> \o s \in Seq(Byte)
  <2> HIDE DEF s
  <2> QED
    BY <1>1, <1>3, ByteConcat, OneInTurn
<1> HIDE DEF a, p
<1>6. Regrouped(a, p, DataEnd)
  BY <1>1, Regroup, Zenon
<1> QED
  BY <1>2, <1>3, <1>4, <1>5, <1>6, Zenon DEF Regrouped, p

\* What a target sends are bytes.
LEMMA EncodeFrameType ==
    ASSUME NEW f \in Record
    PROVE  EncodeFrame(f) \in Seq(Byte)
<1>1. CASE f.kind = "data"
  <2>1. f.id \in Byte /\ f.payload \in Seq(Byte)
    BY <1>1, RecordFields DEF ValidStreamId, Byte
  <2> QED
    BY <1>1, <2>1, DataBytes DEF EncodeFrame
<1>2. CASE f.kind \in {"connected", "disconnected"}
  <2> DEFINE t == IF f.kind = "connected" THEN STREAM_CONNECTED ELSE STREAM_DISCONNECTED
             x == <<f.id>> \o f.name
  <2>1. t \in Byte
    BY ProtocolBytes
  <2>2. x \in Seq(Byte) /\ Len(x) \in 1..((ByteMax + 1) * (ByteMax + 1) - 1)
        /\ EncodeFrame(f) = ControlBytes(t, x)
    BY <1>2, ControlRecords
  <2> HIDE DEF t, x
  <2> QED
    BY <2>1, <2>2, RecordBytes
<1>3. CASE f.kind = "registry"
  <2>1. STREAM_REGISTRY \in Byte
    BY ProtocolBytes
  <2> QED
    BY <1>3, <2>1, ControlRecords, RecordBytes
<1>4. CASE f.kind = "ack"
  BY <1>4, ProtocolBytes DEF EncodeFrame, EncodeAck
<1>5. CASE f.kind = "plain"
  <2>1. f.payload \in Seq(Byte)
    BY <1>5, RecordFields
  <2> QED
    BY <1>5, <2>1 DEF EncodeFrame
<1> QED
  BY <1>1, <1>2, <1>3, <1>4, <1>5, RecordFields

\* The next record of a script is one of the records.
LEMMA NextRecord ==
    ASSUME NEW script \in Scripts, sent \in Seq(Record), Len(sent) < Len(script)
    PROVE  script[Len(sent) + 1] \in Record
<1>1. script \in Seq(Record) /\ Len(sent) \in Nat
  BY ScriptsAssumption
<1> QED
  BY <1>1

\* The state before any thread runs satisfies the invariant.
LEMMA SInitSInv == SInit => SInv
<1> SUFFICES ASSUME SInit PROVE SInv
  OBVIOUS
<1>1. InitTty /\ threads = {} /\ i_pty = 0 /\ sent = <<>>
  BY DEF SInit, LinkInit
<1>2. wire \in Seq(Byte)
  <2>1. OUTER_ESC \in Byte /\ OuterTag \in Byte
    BY DEF OUTER_ESC, Byte
  <2> QED
    BY <2>1 DEF SInit, LinkInit
<1>3. DemuxInv
  <2>1. TableType
    <3>1. \A i \in 0..2 : BuiltinTag(i) \in Tag
      BY DEF BuiltinTag, Tag, Byte
    <3>2. NoTag \in Tag
      BY DEF NoTag, Tag, Byte
    <3> QED
      BY <1>1, <3>1, <3>2 DEF InitTty, TableType, PtyIdx, BuiltinCount
  <2>2. \A i \in Registered : i \in 0..2 /\ tags[i] = BuiltinTag(i)
    BY <1>1 DEF InitTty, Registered, PtyIdx, BuiltinCount
  <2>3. TableShape /\ DistinctStreamIds /\ InputShape
    BY <1>1, <2>2 DEF InitTty, TableShape, DistinctStreamIds, InputShape, BuiltinTag,
                      Registered, BuiltinCount
  <2>4. AllRegistered
    BY <1>1 DEF InitTty, AllRegistered, Registered, BuiltinCount
  <2>5. CursorType /\ CursorIsOpenStream
    BY <1>1 DEF InitTty, CursorType, CursorIsOpenStream, NoStream
  <2>6. ControlType
    BY <1>1 DEF InitTty, ControlType, ControlStates, Byte
  <2>7. OutType
    BY <1>1 DEF InitTty, OutType
  <2>8. OuterType
    BY <1>1 DEF InitTty, OuterType
  <2>9. in_escape \in BOOLEAN /\ alive \in BOOLEAN
    BY <1>1 DEF InitTty
  <2> QED
    BY <2>1, <2>3, <2>4, <2>5, <2>6, <2>7, <2>8, <2>9, TypeParts DEF DemuxInv, TableInv
<1>4. BuiltinsStarted /\ i_pty \in 0..MaxPty
  BY <1>1 DEF BuiltinsStarted, BuiltinCount
<1> QED
  BY <1>1, <1>2, <1>3, <1>4 DEF SInv

\* A step that leaves the demuxer's variables alone keeps what is known of them.
LEMMA DemuxUnchanged ==
    ASSUME DemuxInv, UNCHANGED <<outer, parser, control, virtioso_registry_json, table,
                                 downlink_ack_count, out>>,
           alive' \in BOOLEAN, alive' => alive
    PROVE  DemuxInv'
<1>1. TypeOK'
  BY DEF DemuxInv, TypeOK, outer, parser, control, table
<1>2. TableInv'
  BY DEF DemuxInv, TableInv, TableType, TableShape, DistinctStreamIds, InputShape, Registered,
         table
<1>3. (alive' => AllRegistered') /\ CursorIsOpenStream'
  BY DEF DemuxInv, AllRegistered, CursorIsOpenStream, Registered, parser, table
<1> QED
  BY <1>1, <1>2, <1>3 DEF DemuxInv

\* A step of the tty thread, or of the link, keeps the invariant.
LEMMA TtyThreadStep ==
    ASSUME SInv, TtyThread
    PROVE  SInv' /\ num_proc' >= num_proc
<1>1. DemuxInv /\ wire \in Seq(Byte) /\ sent \in Seq(Record) /\ i_pty \in 0..MaxPty
      /\ BuiltinsStarted /\ UNCHANGED i_pty /\ num_proc \in Nat /\ alive \in BOOLEAN
  BY DEF SInv, TtyThread, DemuxInv, TypeOK, BuiltinCount
<1>2. UNCHANGED threads => BuiltinsStarted'
  BY <1>1 DEF BuiltinsStarted
<1>3. ASSUME UNCHANGED vars
      PROVE  DemuxInv' /\ BuiltinsStarted' /\ num_proc' >= num_proc
  BY <1>1, <1>2, <1>3, DemuxUnchanged DEF vars, table
<1>b. OUTER_ESC \in Byte /\ OUTER_RESET \in Byte /\ OuterTag \in Byte /\ ESC \in Byte
      /\ 0 \in Byte /\ ChipTags \subseteq Byte
  BY DEF OUTER_ESC, OUTER_RESET, ESC, Byte
<1>4. ASSUME NEW script \in Scripts, Send(script)
      PROVE  SInv' /\ num_proc' >= num_proc
  <2>1. script[Len(sent) + 1] \in Record
    BY <1>1, <1>4, NextRecord DEF Send
  <2>2. sent' \in Seq(Record)
    BY <1>1, <1>4, <2>1 DEF Send
  <2>3. wire' \in Seq(Byte)
    BY <1>4, <2>1, EncodeFrameType, EncodeOuterType DEF Send
  <2>4. UNCHANGED vars
    BY <1>4 DEF Send
  <2> QED
    BY <1>1, <1>3, <2>2, <2>3, <2>4 DEF SInv
<1>5. ASSUME NEW tag \in ChipTags, NEW ch \in {0, ESC}, OtherChip(tag, ch)
      PROVE  SInv' /\ num_proc' >= num_proc
  <2>1. wire' \in Seq(Byte)
    <3>1. <<OUTER_ESC, tag, ch, OUTER_ESC, OuterTag>> \in Seq(Byte)
      BY <1>b
    <3> QED
      BY <1>1, <1>5, <3>1 DEF OtherChip
  <2>2. UNCHANGED vars /\ UNCHANGED sent
    BY <1>5 DEF OtherChip
  <2> QED
    BY <1>1, <1>3, <2>1, <2>2 DEF SInv
<1>6. CASE TargetReset
  <2>1. wire' \in Seq(Byte)
    BY <1>b, <1>6 DEF TargetReset
  <2>2. UNCHANGED vars /\ UNCHANGED sent
    BY <1>6 DEF TargetReset
  <2> QED
    BY <1>1, <1>3, <2>1, <2>2 DEF SInv
<1>7. CASE Hangup
  <2>1. wire' \in Seq(Byte)
    BY <1>1, <1>7 DEF Hangup
  <2>2. UNCHANGED vars /\ UNCHANGED sent
    BY <1>7 DEF Hangup
  <2> QED
    BY <1>1, <1>3, <2>1, <2>2 DEF SInv
<1>8. CASE TtyFails
  <2>1. DemuxInv'
    BY <1>1, <1>8, DemuxUnchanged DEF TtyFails
  <2>2. UNCHANGED <<threads, num_proc, wire, sent>>
    BY <1>8 DEF TtyFails, table
  <2> QED
    BY <1>1, <1>2, <2>1, <2>2 DEF SInv
<1>9. CASE Receive
  <2>1. Head(wire) \in Byte /\ Tail(wire) \in Seq(Byte)
    BY <1>1, <1>9 DEF Receive
  <2>2. DemuxInv' /\ TableStep
    BY <1>1, <1>9, <2>1, FeedStep DEF Receive
  <2>3. threads \subseteq threads' /\ num_proc' >= num_proc
    BY <2>2 DEF TableStep, TableGrows
  <2>4. BuiltinsStarted'
    BY <1>1, <2>3 DEF BuiltinsStarted
  <2> QED
    BY <1>1, <1>9, <2>1, <2>2, <2>3, <2>4 DEF SInv, Receive
<1> QED
  BY <1>4, <1>5, <1>6, <1>7, <1>8, <1>9 DEF TtyThread, UNext

\* main starts the next thread.
LEMMA SpawnStep ==
    ASSUME SInv, SpawnPtyThread
    PROVE  SInv'
<1>1. /\ DemuxInv /\ TypeOK /\ TableInv /\ i_pty \in 0..MaxPty /\ BuiltinsStarted
      /\ i_pty < num_proc /\ threads' = threads \cup {i_pty} /\ i_pty' = i_pty + 1
      /\ num_proc \in BuiltinCount..MaxPty
      /\ UNCHANGED <<outer, parser, control, virtioso_registry_json, tags, num_proc,
                     opened, downlink_ack_count, out, alive, wire, sent>>
  BY DEF SInv, DemuxInv, SpawnPtyThread, TypeOK
<1>2. i_pty \in Registered /\ i_pty \in PtyIdx
  BY <1>1 DEF Registered, PtyIdx, BuiltinCount
<1>3. TypeOK'
  BY <1>1, <1>2 DEF TypeOK, outer, parser, control
<1>4. TableInv'
  <2>1. TableType' /\ TableShape' /\ DistinctStreamIds'
    BY <1>1, <1>2 DEF TableInv, TableType, TableShape, DistinctStreamIds, Registered
  <2>2. InputShape'
    BY <1>1 DEF TableInv, InputShape, Registered
  <2> QED
    BY <2>1, <2>2 DEF TableInv
<1>5. alive' => AllRegistered'
  BY <1>1, <1>2 DEF DemuxInv, AllRegistered, Registered
<1>6. CursorIsOpenStream'
  BY <1>1 DEF DemuxInv, CursorIsOpenStream, Registered, parser
<1>7. BuiltinsStarted'
  BY <1>1 DEF BuiltinsStarted, BuiltinCount
<1>8. i_pty' \in 0..MaxPty
  BY <1>1 DEF BuiltinCount
<1> QED
  BY <1>1, <1>3, <1>4, <1>5, <1>6, <1>7, <1>8 DEF SInv, DemuxInv

\* main leaves its loop: the built-in streams are below every bound it may see.
LEMMA JoinStep ==
    ASSUME SInv, MainJoins
    PROVE  SInv'
<1>1. /\ UNCHANGED uvars /\ i_pty' = MaxPty /\ i_pty >= num_proc /\ i_pty \in Nat
      /\ num_proc \in BuiltinCount..MaxPty /\ DemuxInv /\ BuiltinsStarted /\ alive \in BOOLEAN
  BY DEF SInv, MainJoins, DemuxInv, TypeOK
<1>2. DemuxInv'
  BY <1>1, DemuxUnchanged DEF uvars, vars
<1>3. UNCHANGED <<threads, wire, sent>>
  BY <1>1 DEF uvars, vars, table
<1>4. BuiltinsStarted'
  BY <1>1, <1>3 DEF BuiltinsStarted, BuiltinCount
<1> QED
  BY <1>1, <1>2, <1>3, <1>4 DEF SInv

\* Every step keeps the invariant.
LEMMA SNextSInv == SInv /\ [SNext]_<<uvars, i_pty>> => SInv'
<1> SUFFICES ASSUME SInv, [SNext]_<<uvars, i_pty>> PROVE SInv'
  OBVIOUS
<1>1. CASE UNCHANGED <<uvars, i_pty>>
  <2>1. alive \in BOOLEAN
    BY DEF SInv, DemuxInv, TypeOK
  <2>2. DemuxInv'
    BY <1>1, <2>1, DemuxUnchanged DEF SInv, uvars, vars
  <2>3. UNCHANGED <<threads, wire, sent, i_pty>>
    BY <1>1 DEF uvars, vars, table
  <2> QED
    BY <2>2, <2>3 DEF SInv, BuiltinsStarted
<1> QED
  BY <1>1, TtyThreadStep, SpawnStep, JoinStep DEF SNext

\* SInv is an invariant of the program.
LEMMA SInductive == SSpec => []SInv
BY SInitSInv, SNextSInv, PTL DEF SSpec

\* The end of main (tcu_com.c) misses no stream that arrives while its loop runs:
\* once the loop is over every stream with an input direction has its thread,
\* started by the loop or by apply_virtioso_registry_json.
THEOREM StreamsServed == SSpec => []StreamsWithInputAreServed
<1>1. SInv => StreamsWithInputAreServed
  <2> SUFFICES ASSUME SInv, i_pty = MaxPty, NEW i \in Registered, tags[i].input
               PROVE  i \in threads
    BY DEF StreamsWithInputAreServed
  <2>1. num_proc \in BuiltinCount..MaxPty /\ i \in 0..(num_proc - 1)
    BY DEF SInv, DemuxInv, TypeOK, Registered
  <2>2. CASE i < BuiltinCount
    BY <2>1, <2>2 DEF SInv, BuiltinsStarted, BuiltinCount
  <2>3. CASE i >= BuiltinCount
    BY <2>3 DEF SInv, DemuxInv, TableInv, InputShape
  <2> QED
    BY <2>1, <2>2, <2>3 DEF BuiltinCount
<1> QED
  BY <1>1, SInductive, PTL

\* The table of tcu_com.c stays in order, and its parser on a stream with a PTY,
\* in the whole program too: with losses, restarts, hangups and a main that still
\* starts threads while the first streams arrive.
THEOREM ProgramSafe == SSpec => [](TypeOK /\ CursorIsOpenStream /\ DistinctStreamIds)
<1>1. SInv => TypeOK /\ CursorIsOpenStream /\ DistinctStreamIds
  BY DEF SInv, DemuxInv, TableInv
<1> QED
  BY <1>1, SInductive, PTL

-----------------------------------------------------------------------------
(* The outer layer: what passes it on its way to the parser.               *)

\* A byte in the outer layer
Doubled == [b \in Byte |-> IF b = OUTER_ESC THEN <<OUTER_ESC, OUTER_ESC>> ELSE <<b>>]

\* The outer layer has sequences of bytes for bytes.
LEMMA DoubledType == Doubled \in [Byte -> Seq(Byte)]
<1>1. ASSUME NEW b \in Byte
      PROVE  (IF b = OUTER_ESC THEN <<OUTER_ESC, OUTER_ESC>> ELSE <<b>>) \in Seq(Byte)
  <2>1. <<OUTER_ESC, OUTER_ESC>> \in Seq(Byte) /\ <<b>> \in Seq(Byte)
    BY ProtocolBytes
  <2> QED
    BY <2>1, Zenon
<1> QED
  BY <1>1 DEF Doubled

\* EncodeOuter doubles byte by byte.
LEMMA OuterIs ==
    ASSUME OuterMode = "nvidia-tcu", NEW s \in Seq(Byte)
    PROVE  EncodeOuter(s) = Spread(Doubled, s)
<1>1. \A k \in DOMAIN s : s[k] \in Byte
  OBVIOUS
<1>2. \A k \in DOMAIN s : Doubled[s[k]] = IF s[k] = OUTER_ESC THEN <<OUTER_ESC, OUTER_ESC>> ELSE <<s[k]>>
  BY <1>1 DEF Doubled
<1>3. [k \in DOMAIN s |-> Doubled[s[k]]] =
          [k \in DOMAIN s |-> IF s[k] = OUTER_ESC THEN <<OUTER_ESC, OUTER_ESC>> ELSE <<s[k]>>]
  BY <1>2, Zenon
<1>4. OuterMode # "raw"
  OBVIOUS
<1> QED
  BY <1>3, <1>4 DEF EncodeOuter, Spread, PartsOf

\* The first byte in the outer layer, and the rest
LEMMA OuterFirst ==
    ASSUME OuterMode = "nvidia-tcu", NEW s \in Seq(Byte), s # <<>>
    PROVE  /\ Head(s) \in Byte /\ Tail(s) \in Seq(Byte) /\ EncodeOuter(Tail(s)) \in Seq(Byte)
           /\ Head(s) = OUTER_ESC =>
                  EncodeOuter(s) = <<OUTER_ESC>> \o (<<OUTER_ESC>> \o EncodeOuter(Tail(s)))
           /\ Head(s) # OUTER_ESC => EncodeOuter(s) = <<Head(s)>> \o EncodeOuter(Tail(s))
<1>1. Head(s) \in Byte /\ Tail(s) \in Seq(Byte)
  BY HeadAndTail
<1>2. EncodeOuter(Tail(s)) \in Seq(Byte)
  BY <1>1, EncodeOuterType
<1>3. Spread(Doubled, s) = Doubled[Head(s)] \o Spread(Doubled, Tail(s))
  BY DoubledType, SpreadFirst
<1>4. EncodeOuter(s) = Doubled[Head(s)] \o EncodeOuter(Tail(s))
  BY <1>1, <1>3, OuterIs
<1>5. Doubled[Head(s)] = IF Head(s) = OUTER_ESC THEN <<OUTER_ESC, OUTER_ESC>> ELSE <<Head(s)>>
  BY <1>1 DEF Doubled
<1>6. OUTER_ESC \in Byte
  BY ProtocolBytes
<1>7. <<OUTER_ESC, OUTER_ESC>> \o EncodeOuter(Tail(s)) =
          <<OUTER_ESC>> \o (<<OUTER_ESC>> \o EncodeOuter(Tail(s)))
  BY <1>2, <1>6, TwoInTurn
<1> QED
  BY <1>1, <1>2, <1>4, <1>5, <1>7, Zenon

\* Nothing in the outer layer
LEMMA OuterEmpty == EncodeOuter(<<>>) = <<>>
<1>1. CASE OuterMode = "raw"
  BY <1>1 DEF EncodeOuter
<1>2. CASE OuterMode = "nvidia-tcu"
  <2>1. <<>> \in Seq(Byte)
    OBVIOUS
  <2>2. EncodeOuter(<<>>) = Spread(Doubled, <<>>)
    BY <1>2, <2>1, OuterIs
  <2> QED
    BY <2>2, SpreadEmpty, Zenon
<1> QED
  BY <1>1, <1>2, OuterAssumption, Zenon

\* What the firmware puts between two bytes when another chip prints
Interruption ==
    {<<OUTER_ESC, tag, ch, OUTER_ESC, OuterTag>> : tag \in ChipTags \ {OuterTag}, ch \in {0, ESC}}

\* The places of the outer layer in a link that goes on with r: at a byte it may
\* pass on, or inside an interruption
Passing(r) == ~outer_in_escape /\ cur_outer_tag = OuterTag /\ wire = r
Leaving(r) ==
    /\ outer_in_escape /\ cur_outer_tag = OuterTag
    /\ \E tag \in ChipTags \ {OuterTag}, ch \in {0, ESC} :
          wire = <<tag>> \o (<<ch>> \o (<<OUTER_ESC>> \o (<<OuterTag>> \o r)))
Away(r) ==
    /\ ~outer_in_escape /\ cur_outer_tag # OuterTag
    /\ \E ch \in {0, ESC} : wire = <<ch>> \o (<<OUTER_ESC>> \o (<<OuterTag>> \o r))
Returning(r) ==
    /\ ~outer_in_escape /\ cur_outer_tag # OuterTag
    /\ wire = <<OUTER_ESC>> \o (<<OuterTag>> \o r)
Returned(r) == outer_in_escape /\ cur_outer_tag # OuterTag /\ wire = <<OuterTag>> \o r

Reading(r) == Passing(r) \/ Leaving(r) \/ Away(r) \/ Returning(r) \/ Returned(r)

\* Between the two bytes of a literal 0xff
Doubling(w) ==
    /\ outer_in_escape /\ cur_outer_tag = OuterTag
    /\ w # <<>> /\ Head(w) = OUTER_ESC /\ wire = <<OUTER_ESC>> \o EncodeOuter(Tail(w))

\* What is on the link is w for the parser.
Carries(w) ==
    \/ OuterMode = "raw" /\ wire = w
    \/ /\ OuterMode = "nvidia-tcu"
       /\ \/ \E b \in Seq(Interruption) : Reading(FlattenSeq(b) \o EncodeOuter(w))
          \/ Doubling(w)

\* The five bytes of an interruption, one by one
InTurn(a, b, c, d, e, r) ==
    <<a, b, c, d, e>> \o r = <<a>> \o (<<b>> \o (<<c>> \o (<<d>> \o (<<e>> \o r))))

\* Five bytes are one byte after the other.
LEMMA FiveInTurn ==
    ASSUME NEW a \in Byte, NEW b \in Byte, NEW c \in Byte, NEW d \in Byte, NEW e \in Byte,
           NEW r \in Seq(Byte)
    PROVE  <<a, b, c, d, e>> \in Seq(Byte) /\ InTurn(a, b, c, d, e, r)
<1> DEFINE x == <<a>>
           y == <<b>>
           z == <<c>>
           cde == <<c, d, e>>
           bcde == <<b, c, d, e>>
           de == <<d, e>>
<1>1. /\ x \in Seq(Byte) /\ y \in Seq(Byte) /\ z \in Seq(Byte) /\ bcde \in Seq(Byte)
      /\ cde \in Seq(Byte) /\ de \in Seq(Byte) /\ <<a, b, c, d, e>> \in Seq(Byte)
  OBVIOUS
<1>2. <<a, b, c, d, e>> = x \o bcde /\ bcde = y \o cde /\ cde = z \o de
  <2>1. cde = z \o de
    OBVIOUS
  <2>2. bcde = y \o cde
    OBVIOUS
  <2>3. <<a, b, c, d, e>> = x \o bcde
    OBVIOUS
  <2> QED
    BY <2>1, <2>2, <2>3
<1>3. de \o r = <<d>> \o (<<e>> \o r)
  BY TwoInTurn
<1>4. x = <<a>> /\ y = <<b>> /\ z = <<c>>
  OBVIOUS
<1> HIDE DEF x, y, z, cde, bcde, de
<1>5. /\ Regrouped(x, bcde, r) /\ Regrouped(y, cde, r) /\ Regrouped(z, de, r)
  BY <1>1, Regroup, Zenon
<1> QED
  BY <1>1, <1>2, <1>3, <1>4, <1>5, Zenon DEF Regrouped, InTurn

\* An interruption, byte by byte
LEMMA InterruptionBytes ==
    ASSUME NEW tag \in ChipTags, NEW ch \in {0, ESC}, NEW r \in Seq(Byte)
    PROVE  /\ <<OUTER_ESC, tag, ch, OUTER_ESC, OuterTag>> \in Seq(Byte)
           /\ <<OUTER_ESC, tag, ch, OUTER_ESC, OuterTag>> \o r =
                  <<OUTER_ESC>> \o (<<tag>> \o (<<ch>> \o (<<OUTER_ESC>> \o (<<OuterTag>> \o r))))
<1>1. OUTER_ESC \in Byte /\ tag \in Byte /\ ch \in Byte /\ OuterTag \in Byte
  BY ByteMaxAssumption, OuterAssumption DEF OUTER_ESC, ESC, Byte
<1>2. InTurn(OUTER_ESC, tag, ch, OUTER_ESC, OuterTag, r)
  BY <1>1, FiveInTurn
<1>3. <<OUTER_ESC, tag, ch, OUTER_ESC, OuterTag>> \in Seq(Byte)
  BY <1>1
<1> QED
  BY <1>2, <1>3, Zenon DEF InTurn

\* Interruptions are bytes.
LEMMA InterruptionType ==
    ASSUME NEW b \in Seq(Interruption)
    PROVE  b \in Seq(Seq(Byte)) /\ FlattenSeq(b) \in Seq(Byte)
<1>1. Interruption \subseteq Seq(Byte)
  <2> SUFFICES ASSUME NEW x \in Interruption PROVE x \in Seq(Byte)
    OBVIOUS
  <2>1. PICK tag \in ChipTags \ {OuterTag}, ch \in {0, ESC} :
            x = <<OUTER_ESC, tag, ch, OUTER_ESC, OuterTag>>
    BY DEF Interruption
  <2>2. <<>> \in Seq(Byte) /\ tag \in ChipTags
    OBVIOUS
  <2> QED
    BY <2>1, <2>2, InterruptionBytes, Zenon
<1>2. b \in Seq(Seq(Byte))
  BY <1>1
<1> QED
  BY <1>2, FlattenType

\* The bytes that the outer layer passes on to feed_virtioso_byte
Passes(ch) == OuterMode = "raw" \/ (cur_outer_tag = OuterTag /\ (outer_in_escape <=> ch = OUTER_ESC))

\* What a byte does to the outer layer, unless it is a reset
OuterMoves(ch) ==
    /\ OuterMode = "raw" => UNCHANGED outer
    /\ OuterMode = "nvidia-tcu" /\ ~(outer_in_escape /\ ch = OUTER_RESET) =>
           /\ outer_in_escape' = (~outer_in_escape /\ ch = OUTER_ESC)
           /\ cur_outer_tag' = IF outer_in_escape /\ ch \in ChipTags THEN ch ELSE cur_outer_tag

\* The reserved bytes of the outer layer are no tags.
LEMMA TagBytes ==
    /\ OUTER_ESC \in Byte /\ 0 \in Byte /\ ESC \in Byte /\ OuterTag \in Byte /\ OuterTag \in ChipTags
    /\ 0 # OUTER_ESC /\ ESC # OUTER_ESC /\ OUTER_RESET # OUTER_ESC
    /\ \A t \in ChipTags : t \in Byte /\ t # OUTER_ESC /\ t # OUTER_RESET
BY ByteMaxAssumption, OuterAssumption DEF OUTER_ESC, OUTER_RESET, ESC, Byte

\* A link on which nothing is has nothing for the parser, which the outer layer
\* would pass on to it.
LEMMA CarriesNothing ==
    ASSUME NEW w \in Seq(Byte), Carries(w), wire = <<>>
    PROVE  w = <<>> /\ OuterOpen
<1>1. CASE OuterMode = "raw"
  BY <1>1 DEF Carries, OuterOpen
<1>2. CASE OuterMode = "nvidia-tcu"
  <2>1. \A c \in Byte, s \in Seq(Byte) : wire # <<c>> \o s
    <3> TAKE c \in Byte, s \in Seq(Byte)
    <3>1. <<c>> \o s # <<>>
      BY FirstOf
    <3> QED
      BY <3>1
  <2>2. EncodeOuter(w) \in Seq(Byte)
    BY EncodeOuterType
  <2>3. ~Doubling(w)
    <3> SUFFICES ASSUME Doubling(w) PROVE FALSE
      OBVIOUS
    <3>1. EncodeOuter(Tail(w)) \in Seq(Byte) /\ wire = <<OUTER_ESC>> \o EncodeOuter(Tail(w))
      BY <1>2, OuterFirst DEF Doubling
    <3> QED
      BY <2>1, <3>1, TagBytes, Zenon
  <2>4. PICK b \in Seq(Interruption) : Reading(FlattenSeq(b) \o EncodeOuter(w))
    BY <1>2, <2>3 DEF Carries
  <2> DEFINE r == FlattenSeq(b) \o EncodeOuter(w)
  <2>5. r \in Seq(Byte) /\ FlattenSeq(b) \in Seq(Byte)
    BY <2>2, InterruptionType, ByteConcat
  <2>6. Passing(r)
    <3> HIDE DEF r
    <3>1. <<OuterTag>> \o r \in Seq(Byte)
      BY <2>5, OneInTurn, TagBytes
    <3>2. <<OUTER_ESC>> \o (<<OuterTag>> \o r) \in Seq(Byte)
      BY <3>1, OneInTurn, TagBytes
    <3>3. \A ch \in {0, ESC} : ch \in Byte /\ <<ch>> \o (<<OUTER_ESC>> \o (<<OuterTag>> \o r)) \in Seq(Byte)
      BY <3>2, OneInTurn, TagBytes
    <3>4. ~Returned(r) /\ ~Returning(r)
      BY <2>1, <2>5, <3>1, TagBytes, Zenon DEF Returned, Returning
    <3>5. ~Away(r)
      BY <2>1, <3>2, <3>3, Zenon DEF Away
    <3>6. ~Leaving(r)
      <4> SUFFICES ASSUME NEW tag \in ChipTags, NEW ch \in {0, ESC},
                          wire = <<tag>> \o (<<ch>> \o (<<OUTER_ESC>> \o (<<OuterTag>> \o r)))
                   PROVE  FALSE
        BY DEF Leaving
      <4>1. tag \in Byte
        BY TagBytes
      <4> QED
        BY <2>1, <3>3, <4>1, Zenon
    <3>7. Reading(r)
      BY <2>4 DEF r
    <3> QED
      BY <3>4, <3>5, <3>6, <3>7 DEF Reading
  <2>7. EncodeOuter(w) = <<>>
    <3> DEFINE fb == FlattenSeq(b)
               ew == EncodeOuter(w)
    <3>1. fb \o ew = <<>> /\ fb \in Seq(Byte) /\ ew \in Seq(Byte)
      BY <2>2, <2>5, <2>6 DEF Passing
    <3> HIDE DEF fb, ew
    <3>2. Len(fb) + Len(ew) = 0 /\ Len(fb) \in Nat /\ Len(ew) \in Nat
      BY <3>1, LenOfConcat
    <3>3. ew = <<>>
      BY <3>1, <3>2, EmptySeq
    <3> QED
      BY <3>3 DEF ew
  <2>8. w = <<>>
    <3> SUFFICES ASSUME w # <<>> PROVE FALSE
      OBVIOUS
    <3>1. PICK c \in Byte, s \in Seq(Byte) : EncodeOuter(w) = <<c>> \o s
      <4>1. EncodeOuter(Tail(w)) \in Seq(Byte) /\ Head(w) \in Byte
        BY <1>2, OuterFirst
      <4>2. <<OUTER_ESC>> \o EncodeOuter(Tail(w)) \in Seq(Byte)
        BY <4>1, OneInTurn, TagBytes
      <4> QED
        BY <1>2, <4>1, <4>2, OuterFirst, TagBytes
    <3> QED
      BY <2>1, <2>7, <3>1
  <2> QED
    BY <2>6, <2>8 DEF Passing, OuterOpen
<1> QED
  BY <1>1, <1>2, OuterAssumption, Zenon

\* A record is put on an empty link that passes bytes on.
LEMMA CarriesRecord ==
    ASSUME NEW w \in Seq(Byte), OuterOpen, UNCHANGED outer, wire' = EncodeOuter(w)
    PROVE  Carries(w)'
<1>1. CASE OuterMode = "raw"
  <2>1. EncodeOuter(w) = w
    BY <1>1 DEF EncodeOuter
  <2> QED
    BY <1>1, <2>1 DEF Carries
<1>2. CASE OuterMode = "nvidia-tcu"
  <2>1. <<>> \in Seq(Interruption)
    OBVIOUS
  <2>2. FlattenSeq(<<>>) \o EncodeOuter(w) = EncodeOuter(w)
    <3>1. EncodeOuter(w) \in Seq(Byte)
      BY EncodeOuterType
    <3> QED
      BY <3>1, FlattenEmpty
  <2>3. Passing(FlattenSeq(<<>>) \o EncodeOuter(w))'
    BY <1>2, <2>2 DEF Passing, OuterOpen, outer
  <2> QED
    BY <1>2, <2>1, <2>3 DEF Carries, Reading
<1> QED
  BY <1>1, <1>2, OuterAssumption, Zenon

\* Another chip prints: what the parser gets stays the same.
LEMMA CarriesInterrupted ==
    ASSUME NEW w \in Seq(Byte), Carries(w), NEW tag \in ChipTags \ {OuterTag}, NEW ch \in {0, ESC},
           OtherChip(tag, ch)
    PROVE  Carries(w)'
<1> DEFINE x == <<OUTER_ESC, tag, ch, OUTER_ESC, OuterTag>>
           ew == EncodeOuter(w)
<1>1. OuterMode = "nvidia-tcu" /\ ~outer_in_escape /\ cur_outer_tag = OuterTag /\ UNCHANGED outer
      /\ wire' = x \o wire
  BY DEF OtherChip, OuterOpen, vars, outer
<1>2. PICK b \in Seq(Interruption) : wire = FlattenSeq(b) \o ew
  <2>1. ~Doubling(w) /\ \A r : Reading(r) => Passing(r)
    BY <1>1, Zenon DEF Doubling, Reading, Passing, Leaving, Away, Returning, Returned
  <2>2. PICK b \in Seq(Interruption) : Reading(FlattenSeq(b) \o EncodeOuter(w))
    BY <1>1, <2>1, Zenon DEF Carries
  <2>3. Passing(FlattenSeq(b) \o EncodeOuter(w))
    BY <2>1, <2>2, Zenon
  <2> QED
    BY <2>3 DEF Passing
<1>3. b \in Seq(Seq(Byte)) /\ FlattenSeq(b) \in Seq(Byte) /\ ew \in Seq(Byte)
  BY InterruptionType, EncodeOuterType
<1>4. x \in Interruption /\ x \in Seq(Byte)
  <2>1. x \in Interruption
    BY DEF Interruption
  <2>2. <<>> \in Seq(Byte) /\ tag \in ChipTags
    OBVIOUS
  <2> QED
    BY <2>1, <2>2, InterruptionBytes
<1> HIDE DEF x, ew
<1>5. <<x>> \o b \in Seq(Interruption) /\ <<x>> \in Seq(Seq(Byte))
  BY <1>4
<1>6. FlattenSeq(<<x>> \o b) = FlattenSeq(<<x>>) \o FlattenSeq(b)
  BY <1>3, <1>5, FlattenConcat
<1>7. FlattenSeq(<<x>>) = x
  BY <1>4, FlattenSingle
<1>8. (x \o FlattenSeq(b)) \o ew = x \o (FlattenSeq(b) \o ew)
  <2>1. Regrouped(x, FlattenSeq(b), ew)
    BY <1>3, <1>4, Regroup, Zenon
  <2> QED
    BY <2>1, Zenon DEF Regrouped
<1>9. wire' = FlattenSeq(<<x>> \o b) \o ew
  BY <1>1, <1>2, <1>6, <1>7, <1>8
<1>10. Passing(FlattenSeq(<<x>> \o b) \o EncodeOuter(w))'
  BY <1>1, <1>9 DEF Passing, outer, ew
<1> QED
  BY <1>1, <1>5, <1>10 DEF Carries, Reading

\* The outer layer at the front of what is on the link: an interruption, a literal
\* 0xff, or a byte it passes on
LEMMA PassingMoves ==
    ASSUME NEW w \in Seq(Byte), OuterMode = "nvidia-tcu", NEW b \in Seq(Interruption),
           Passing(FlattenSeq(b) \o EncodeOuter(w)),
           wire # <<>>, wire' = Tail(wire), OuterMoves(Head(wire))
    PROVE  \/ Passes(Head(wire)) /\ w # <<>> /\ Head(w) = Head(wire) /\ Carries(Tail(w))'
           \/ ~Passes(Head(wire)) /\ Carries(w)'
<1> DEFINE ew == EncodeOuter(w)
<1>1. ~outer_in_escape /\ cur_outer_tag = OuterTag /\ wire = FlattenSeq(b) \o ew
  BY DEF Passing
<1>2. outer_in_escape' = (Head(wire) = OUTER_ESC) /\ cur_outer_tag' = OuterTag
  BY <1>1 DEF OuterMoves
<1>3. ew \in Seq(Byte)
  BY EncodeOuterType
<1>4. CASE b = <<>>
  <2>1. wire = ew
    BY <1>1, <1>3, <1>4, FlattenEmpty
  <2>2. w # <<>>
    BY <2>1, OuterEmpty
  <2>3. /\ Head(w) \in Byte /\ Tail(w) \in Seq(Byte) /\ EncodeOuter(Tail(w)) \in Seq(Byte)
        /\ Head(w) = OUTER_ESC => ew = <<OUTER_ESC>> \o (<<OUTER_ESC>> \o EncodeOuter(Tail(w)))
        /\ Head(w) # OUTER_ESC => ew = <<Head(w)>> \o EncodeOuter(Tail(w))
    BY <2>2, OuterFirst
  <2> HIDE DEF ew
  <2>4. CASE Head(w) = OUTER_ESC
    <3>1. <<OUTER_ESC>> \o EncodeOuter(Tail(w)) \in Seq(Byte)
      BY <2>3, OneInTurn, TagBytes
    <3>2. Head(wire) = OUTER_ESC /\ Tail(wire) = <<OUTER_ESC>> \o EncodeOuter(Tail(w))
      BY <2>1, <2>3, <2>4, <3>1, FirstOf, TagBytes
    <3>3. Doubling(w)'
      BY <1>2, <2>2, <2>4, <3>2 DEF Doubling
    <3>4. ~Passes(Head(wire))
      BY <1>1, <3>2 DEF Passes
    <3> QED
      BY <3>3, <3>4 DEF Carries
  <2>5. CASE Head(w) # OUTER_ESC
    <3>1. Head(wire) = Head(w) /\ Tail(wire) = EncodeOuter(Tail(w))
      BY <2>1, <2>3, <2>5, FirstOf
    <3>2. Passes(Head(wire))
      BY <1>1, <2>5, <3>1 DEF Passes
    <3>3. OuterOpen'
      BY <1>2, <2>5, <3>1 DEF OuterOpen
    <3>4. Carries(Tail(w))'
      <4>1. <<>> \in Seq(Interruption)
        OBVIOUS
      <4>2. FlattenSeq(<<>>) \o EncodeOuter(Tail(w)) = EncodeOuter(Tail(w))
        BY <2>3, FlattenEmpty
      <4>3. Passing(FlattenSeq(<<>>) \o EncodeOuter(Tail(w)))'
        BY <1>2, <2>5, <3>1, <4>2 DEF Passing
      <4> QED
        BY <4>1, <4>3 DEF Carries, Reading
    <3> QED
      BY <2>2, <3>1, <3>2, <3>4
  <2> QED
    BY <2>4, <2>5
<1>5. CASE b # <<>>
  <2>1. Head(b) \in Interruption /\ Tail(b) \in Seq(Interruption)
    BY <1>5, HeadAndTail
  <2>2. PICK tag \in ChipTags \ {OuterTag}, ch \in {0, ESC} :
            Head(b) = <<OUTER_ESC, tag, ch, OUTER_ESC, OuterTag>>
    BY <2>1 DEF Interruption
  <2>3. b \in Seq(Seq(Byte)) /\ FlattenSeq(Tail(b)) \in Seq(Byte)
    BY <2>1, InterruptionType
  <2> DEFINE r == FlattenSeq(Tail(b)) \o ew
             s == <<tag>> \o (<<ch>> \o (<<OUTER_ESC>> \o (<<OuterTag>> \o r)))
  <2>4. r \in Seq(Byte)
    BY <1>3, <2>3, ByteConcat
  <2>5. /\ Head(b) \in Seq(Byte)
        /\ Head(b) \o r = <<OUTER_ESC>> \o s
    <3> HIDE DEF r
    <3>1. tag \in ChipTags
      OBVIOUS
    <3>a. OUTER_ESC \in Byte /\ tag \in Byte /\ ch \in Byte /\ OuterTag \in Byte
      BY <3>1, ByteMaxAssumption, OuterAssumption DEF OUTER_ESC, ESC, Byte
    <3>b. <<OUTER_ESC, tag, ch, OUTER_ESC, OuterTag>> \in Seq(Byte)
      BY <3>a
    <3>c. InTurn(OUTER_ESC, tag, ch, OUTER_ESC, OuterTag, r)
      BY <2>4, <3>a, FiveInTurn, Zenon
    <3>2. /\ <<OUTER_ESC, tag, ch, OUTER_ESC, OuterTag>> \in Seq(Byte)
          /\ <<OUTER_ESC, tag, ch, OUTER_ESC, OuterTag>> \o r =
                 <<OUTER_ESC>> \o (<<tag>> \o (<<ch>> \o (<<OUTER_ESC>> \o (<<OuterTag>> \o r))))
      BY <3>b, <3>c, Zenon DEF InTurn
    <3> QED
      BY <2>2, <3>2, Zenon
  <2>6. FlattenSeq(b) = Head(b) \o FlattenSeq(Tail(b))
    BY <1>5, <2>3, FlattenFirst
  <2>7. wire = Head(b) \o r
    <3> DEFINE hb == Head(b)
               fb == FlattenSeq(Tail(b))
    <3>1. hb \in Seq(Byte) /\ fb \in Seq(Byte)
      BY <2>3, <2>5
    <3> HIDE DEF ew, hb, fb
    <3>2. (hb \o fb) \o ew = hb \o (fb \o ew)
      <4>1. ew \in Seq(Byte)
        BY <1>3
      <4> QED
        BY <3>1, <4>1, ByteConcat, SMTT(30)
    <3> QED
      BY <1>1, <2>6, <3>2, Zenon DEF hb, fb
  <2>8. s \in Seq(Byte)
    <3> HIDE DEF r
    <3>1. <<OuterTag>> \o r \in Seq(Byte)
      BY <2>4, OneInTurn, TagBytes
    <3>2. <<OUTER_ESC>> \o (<<OuterTag>> \o r) \in Seq(Byte)
      BY <3>1, OneInTurn, TagBytes
    <3>3. <<ch>> \o (<<OUTER_ESC>> \o (<<OuterTag>> \o r)) \in Seq(Byte)
      BY <3>2, OneInTurn, TagBytes
    <3> QED
      BY <3>3, OneInTurn, TagBytes
  <2>9. Head(wire) = OUTER_ESC /\ Tail(wire) = s
    <3> HIDE DEF r, s
    <3> QED
      BY <2>5, <2>7, <2>8, FirstOf, TagBytes
  <2>10. Leaving(r)'
    BY <1>2, <2>9 DEF Leaving
  <2>11. ~Passes(Head(wire))
    BY <1>1, <2>9 DEF Passes
  <2> QED
    BY <2>1, <2>10, <2>11 DEF Carries, Reading
<1> QED
  BY <1>4, <1>5

\* A byte of the link: the outer layer passes it on, or keeps it to itself.
LEMMA CarriesOn ==
    ASSUME NEW w \in Seq(Byte), Carries(w), wire # <<>>, wire' = Tail(wire), OuterMoves(Head(wire))
    PROVE  \/ Passes(Head(wire)) /\ w # <<>> /\ Head(w) = Head(wire) /\ Carries(Tail(w))'
           \/ ~Passes(Head(wire)) /\ Carries(w)' /\ ~(outer_in_escape /\ Head(wire) = OUTER_RESET)
<1>1. CASE OuterMode = "raw"
  BY <1>1 DEF Carries, Passes
<1>2. ASSUME OuterMode = "nvidia-tcu", NEW b \in Seq(Interruption),
             Passing(FlattenSeq(b) \o EncodeOuter(w))
      PROVE  \/ Passes(Head(wire)) /\ w # <<>> /\ Head(w) = Head(wire) /\ Carries(Tail(w))'
             \/ ~Passes(Head(wire)) /\ Carries(w)' /\ ~(outer_in_escape /\ Head(wire) = OUTER_RESET)
  <2>1. ~outer_in_escape
    BY <1>2 DEF Passing
  <2> QED
    BY <1>2, <2>1, PassingMoves
<1>3. ASSUME OuterMode = "nvidia-tcu", NEW b \in Seq(Interruption),
             Reading(FlattenSeq(b) \o EncodeOuter(w)), ~Passing(FlattenSeq(b) \o EncodeOuter(w))
      PROVE  ~Passes(Head(wire)) /\ Carries(w)' /\ ~(outer_in_escape /\ Head(wire) = OUTER_RESET)
  <2> DEFINE r == FlattenSeq(b) \o EncodeOuter(w)
             r1 == <<OuterTag>> \o r
             r2 == <<OUTER_ESC>> \o r1
  <2>1. r \in Seq(Byte)
    BY EncodeOuterType, InterruptionType, ByteConcat
  <2>2. r1 \in Seq(Byte)
    <3> HIDE DEF r
    <3> QED
      BY <2>1, OneInTurn, TagBytes
  <2>3. r2 \in Seq(Byte)
    <3> HIDE DEF r1
    <3> QED
      BY <2>2, OneInTurn, TagBytes
  <2>4. SUFFICES ~Passes(Head(wire)) /\ Reading(r)' /\ ~(outer_in_escape /\ Head(wire) = OUTER_RESET)
    BY <1>3 DEF Carries
  <2>5. ~(outer_in_escape /\ Head(wire) = OUTER_RESET) =>
            /\ outer_in_escape' = (~outer_in_escape /\ Head(wire) = OUTER_ESC)
            /\ cur_outer_tag' = IF outer_in_escape /\ Head(wire) \in ChipTags THEN Head(wire) ELSE cur_outer_tag
    BY <1>3 DEF OuterMoves
  <2>6. OuterMode # "raw"
    BY <1>3
  <2> HIDE DEF r
  <2>7. CASE Leaving(r)
    <3>1. outer_in_escape /\ cur_outer_tag = OuterTag
      BY <2>7 DEF Leaving
    <3>2. PICK tag \in ChipTags \ {OuterTag}, ch \in {0, ESC} : wire = <<tag>> \o (<<ch>> \o r2)
      BY <2>7 DEF Leaving
    <3>3. <<ch>> \o r2 \in Seq(Byte)
      <4> HIDE DEF r2
      <4> QED
        BY <2>3, OneInTurn, TagBytes
    <3>4. Head(wire) = tag /\ Tail(wire) = <<ch>> \o r2
      <4> HIDE DEF r2
      <4> QED
        BY <3>2, <3>3, FirstOf, TagBytes
    <3>5. tag # OUTER_ESC /\ tag # OUTER_RESET
      BY TagBytes
    <3>6. Away(r)'
      BY <2>5, <3>1, <3>4, <3>5 DEF Away
    <3> QED
      BY <2>6, <3>1, <3>4, <3>5, <3>6 DEF Reading, Passes
  <2>8. CASE Away(r)
    <3>1. ~outer_in_escape /\ cur_outer_tag # OuterTag
      BY <2>8 DEF Away
    <3>2. PICK ch \in {0, ESC} : wire = <<ch>> \o r2
      BY <2>8 DEF Away
    <3>3. Head(wire) = ch /\ Tail(wire) = r2
      <4> HIDE DEF r2
      <4> QED
        BY <2>3, <3>2, FirstOf, TagBytes
    <3>4. ch # OUTER_ESC
      BY TagBytes
    <3>5. Returning(r)'
      BY <2>5, <3>1, <3>3, <3>4 DEF Returning
    <3> QED
      BY <2>6, <3>1, <3>5 DEF Reading, Passes
  <2>9. CASE Returning(r)
    <3>1. ~outer_in_escape /\ cur_outer_tag # OuterTag /\ wire = r2
      BY <2>9 DEF Returning
    <3>2. Head(wire) = OUTER_ESC /\ Tail(wire) = r1
      <4> HIDE DEF r1
      <4> QED
        BY <2>2, <3>1, FirstOf, TagBytes
    <3>3. Returned(r)'
      BY <2>5, <3>1, <3>2 DEF Returned
    <3> QED
      BY <2>6, <3>1, <3>3 DEF Reading, Passes
  <2>10. CASE Returned(r)
    <3>1. outer_in_escape /\ cur_outer_tag # OuterTag /\ wire = r1
      BY <2>10 DEF Returned
    <3>2. Head(wire) = OuterTag /\ Tail(wire) = r
      BY <2>1, <3>1, FirstOf, TagBytes
    <3>3. OuterTag # OUTER_RESET
      BY TagBytes
    <3>4. Passing(r)'
      BY <2>5, <3>1, <3>2, <3>3, TagBytes DEF Passing
    <3> QED
      BY <2>6, <3>1, <3>2, <3>3, <3>4 DEF Reading, Passes
  <2> QED
    BY <1>3, <2>7, <2>8, <2>9, <2>10 DEF Reading, r
<1>4. ASSUME OuterMode = "nvidia-tcu", Doubling(w)
      PROVE  Passes(Head(wire)) /\ w # <<>> /\ Head(w) = Head(wire) /\ Carries(Tail(w))'
  <2>1. /\ outer_in_escape /\ cur_outer_tag = OuterTag /\ w # <<>> /\ Head(w) = OUTER_ESC
        /\ wire = <<OUTER_ESC>> \o EncodeOuter(Tail(w))
    BY <1>4 DEF Doubling
  <2>2. EncodeOuter(Tail(w)) \in Seq(Byte)
    BY <1>4, <2>1, OuterFirst
  <2>3. Head(wire) = OUTER_ESC /\ Tail(wire) = EncodeOuter(Tail(w))
    BY <2>1, <2>2, FirstOf, TagBytes
  <2>4. <<>> \in Seq(Interruption)
    OBVIOUS
  <2>5. FlattenSeq(<<>>) \o EncodeOuter(Tail(w)) = EncodeOuter(Tail(w))
    BY <2>2, FlattenEmpty
  <2>6. Passing(FlattenSeq(<<>>) \o EncodeOuter(Tail(w)))'
    BY <1>4, <2>1, <2>3, <2>5, TagBytes DEF Passing, OuterMoves
  <2> QED
    BY <1>4, <2>1, <2>3, <2>4, <2>6 DEF Carries, Reading, Passes
<1> QED
  BY <1>1, <1>2, <1>3, <1>4 DEF Carries

\* A byte that the outer layer passes on is parsed, mirrored or not; any other byte
\* changes the outer layer only.
LEMMA FeedMoves ==
    ASSUME NEW ch, Feed(ch), DemuxInv
    PROVE  /\ alive /\ OuterMoves(ch)
           /\ Passes(ch) => ~alive' \/ \E o \in {out, Mirrored(ch)} : FeedVirtiosoByte(ch, o)
           /\ ~Passes(ch) /\ ~(outer_in_escape /\ ch = OUTER_RESET) => UnchangedInner
<1>1. alive /\ outer_in_escape \in BOOLEAN /\ OuterMode \in {"raw", "nvidia-tcu"}
      /\ OUTER_ESC # OUTER_RESET /\ OUTER_ESC \notin ChipTags
  BY TagBytes, OuterAssumption DEF Feed, DemuxInv, TypeOK
<1>2. MirrorAndFeed(ch) => ~alive' \/ FeedVirtiosoByte(ch, Mirrored(ch))
  BY DEF MirrorAndFeed
<1>3. CASE RawByte(ch)
  BY <1>1, <1>2, <1>3 DEF RawByte, OuterMoves, Passes
<1>4. CASE OuterPayload(ch)
  BY <1>1, <1>2, <1>4 DEF OuterPayload, OuterMoves, Passes, outer
<1>5. CASE OuterEscapeStart(ch)
  BY <1>1, <1>5 DEF OuterEscapeStart, OuterMoves, Passes
<1>6. CASE OuterEscapeEscape(ch)
  BY <1>1, <1>6 DEF OuterEscapeEscape, OuterMoves, Passes
<1>7. CASE OuterReset(ch)
  BY <1>1, <1>7 DEF OuterReset, OuterMoves, Passes
<1>8. CASE OuterTagSwitch(ch)
  BY <1>1, <1>8 DEF OuterTagSwitch, OuterMoves, Passes
<1> QED
  BY <1>3, <1>4, <1>5, <1>6, <1>7, <1>8 DEF Feed

\* What a sequence ends with is its suffix.
LEMMA BackIsSuffix ==
    ASSUME NEW S, NEW h \in Seq(S), NEW s \in Seq(S)
    PROVE  IsSuffix(s, h \o s)
<1> DEFINE t == h \o s
           rt == Reverse(t)
           rs == Reverse(s)
           rh == Reverse(h)
<1>1. /\ t \in Seq(S) /\ Len(t) = Len(h) + Len(s) /\ Len(h) \in Nat /\ Len(s) \in Nat
      /\ \A k \in 1..Len(h) : t[k] = h[k]
      /\ \A k \in (Len(h) + 1)..(Len(h) + Len(s)) : t[k] = s[k - Len(h)]
  OBVIOUS
<1>2. ASSUME NEW q \in Seq(S)
      PROVE  /\ Reverse(q) \in Seq(S) /\ Len(Reverse(q)) = Len(q) /\ Len(q) \in Nat
             /\ \A k \in 1..Len(q) : Reverse(q)[k] = q[(Len(q) - k) + 1]
  <2>1. \A k \in 1..Len(q) : q[(Len(q) - k) + 1] \in S
    OBVIOUS
  <2>2. Reverse(q) \in [1..Len(q) -> S]
    BY <2>1 DEF Reverse
  <2>3. Reverse(q) \in Seq(S) /\ Len(Reverse(q)) = Len(q) /\ Len(q) \in Nat
    BY <2>2
  <2> QED
    BY <2>3 DEF Reverse
<1> HIDE DEF t
<1>3. /\ rt \in Seq(S) /\ Len(rt) = Len(h) + Len(s)
      /\ \A k \in 1..Len(t) : rt[k] = t[(Len(t) - k) + 1]
  BY <1>1, <1>2
<1>4. /\ rs \in Seq(S) /\ Len(rs) = Len(s)
      /\ \A k \in 1..Len(s) : rs[k] = s[(Len(s) - k) + 1]
  BY <1>2
<1> HIDE DEF rt, rs
<1>5. \A k \in 1..Len(s) : rt[k] = rs[k]
  <2> SUFFICES ASSUME NEW k \in 1..Len(s) PROVE rt[k] = rs[k]
    OBVIOUS
  <2>1. k \in 1..Len(t) /\ (Len(t) - k) + 1 \in (Len(h) + 1)..(Len(h) + Len(s))
        /\ ((Len(t) - k) + 1) - Len(h) = (Len(s) - k) + 1
    BY <1>1
  <2>2. rt[k] = t[(Len(t) - k) + 1] /\ rs[k] = s[(Len(s) - k) + 1]
    BY <1>3, <1>4, <2>1
  <2>3. t[(Len(t) - k) + 1] = s[((Len(t) - k) + 1) - Len(h)]
    BY <1>1, <2>1
  <2> QED
    BY <2>1, <2>2, <2>3
<1>6. SubSeq(rs, 1, Len(rs)) = SubSeq(rt, 1, Len(rs)) /\ Len(rs) <= Len(rt)
  <2>1. Len(rs) <= Len(rt)
    BY <1>1, <1>3, <1>4
  <2> QED
    BY <1>1, <1>3, <1>4, <1>5, <2>1
<1> QED
  BY <1>6 DEF IsSuffix, IsPrefix, rt, rs, t

-----------------------------------------------------------------------------
(* A data frame that begins while no record is being read.                 *)

After(e) == EscapePayload(e) \o DataEnd

\* The stream of a frame that began at rest is selected, and has what is in front
\* of e.
Got(f, e) ==
    start = "rest" /\ StreamPtys(f.id) # {} =>
        /\ cur_rx_stream \in StreamPtys(f.id)
        /\ \E h, d \in Seq(Byte) : f.payload = d \o e /\ out[cur_rx_stream] = h \o d

\* Where the parser is in the frame, when it still gets w
AtStart(f, w) == w = <<ESC>> \o (<<f.id>> \o After(f.payload)) /\ (start = "rest" => ParserRest)
AtId(f, w)    == w = <<f.id>> \o After(f.payload) /\ (in_escape \/ start = "idle")
InPayload(f, e, w) == ~in_escape /\ w = After(e) /\ Got(f, e)
InLiteral(f, e, w) ==
    in_escape /\ e # <<>> /\ Head(e) = ESC /\ w = <<ESC>> \o After(Tail(e)) /\ Got(f, e)
AtEnd(f, w)   == in_escape /\ w = <<DEFAULT>> /\ Got(f, <<>>)
Finished(f, w) ==
    /\ w = <<>> /\ ParserRest
    /\ start = "rest" /\ StreamPtys(f.id) # {} =>
           \E h \in Seq(Byte) : Delivered(f.id) = h \o f.payload

Within(f, w) ==
    /\ control_state = "IDLE"
    /\ \/ AtStart(f, w) \/ AtId(f, w) \/ AtEnd(f, w) \/ Finished(f, w)
       \/ \E e \in Seq(Byte) : InPayload(f, e, w) \/ InLiteral(f, e, w)

\* Unless bytes of it are lost, the frame sent last is somewhere between the link
\* and the streams.
FrameInv ==
    LET f == Last(sent)
    IN  alive /\ start \in {"rest", "idle"} /\ sent # <<>> /\ f.kind = "data" =>
            \E w \in Seq(Byte) : Carries(w) /\ Within(f, w)

DataRecord == [kind: {"data"}, id: ValidStreamId, payload: Seq(Byte)]

\* What is left of a frame is never nothing.
LEMMA AfterType ==
    ASSUME NEW e \in Seq(Byte)
    PROVE  After(e) \in Seq(Byte) /\ After(e) # <<>>
<1> DEFINE c == EscapePayload(e)
           d == DataEnd
<1>1. c \in Seq(Byte) /\ d \in Seq(Byte) /\ Len(d) = 2
  BY EscapeIs, ProtocolBytes DEF DataEnd
<1> HIDE DEF c, d
<1>2. c \o d \in Seq(Byte)
  BY <1>1, ByteConcat
<1>3. Len(c \o d) = Len(c) + Len(d)
  BY <1>1, LenOfConcat
<1>4. Len(c \o d) > 0
  BY <1>1, <1>3
<1> QED
  BY <1>2, <1>4 DEF After, c, d

\* The bytes of a frame
LEMMA FrameBytes ==
    ASSUME NEW f \in DataRecord
    PROVE  /\ f.id \in Byte /\ f.id \in ValidStreamId /\ f.payload \in Seq(Byte)
           /\ f.id \notin {DEFAULT, ESC, CONTROL}
           /\ <<f.id>> \o After(f.payload) \in Seq(Byte)
           /\ EncodeFrame(f) = <<ESC>> \o (<<f.id>> \o After(f.payload))
           /\ EncodeFrame(f) \in Seq(Byte)
<1>1. f.id \in Byte /\ f.id \in ValidStreamId /\ f.payload \in Seq(Byte) /\ f.kind = "data"
      /\ f.id \notin {DEFAULT, ESC, CONTROL}
  BY ByteMaxAssumption DEF DataRecord, ValidStreamId, Byte, DEFAULT, ESC, CONTROL
<1>2. EncodeFrame(f) = EncodeData(f.id, f.payload)
  BY <1>1 DEF EncodeFrame
<1> QED
  BY <1>1, <1>2, DataBytes DEF After

\* A byte of payload reaches the stream.
LEMMA GotMore ==
    ASSUME DemuxInv, DemuxInv', NEW f \in DataRecord, NEW e \in Seq(Byte), e # <<>>, Got(f, e),
           NEW o \in {out, Mirrored(Head(e))}, alive',
           \/ cur_rx_stream >= 0 /\ FlushStream(o, cur_rx_stream, Head(e))
           \/ cur_rx_stream < 0,
           UNCHANGED <<cur_rx_stream, table, start>>
    PROVE  Got(f, Tail(e))'
<1> SUFFICES ASSUME start = "rest", StreamPtys(f.id) # {}
             PROVE  /\ cur_rx_stream \in StreamPtys(f.id)
                    /\ \E h, d \in Seq(Byte) : f.payload = d \o Tail(e) /\ out'[cur_rx_stream] = h \o d
  <2>1. StreamPtys(f.id)' = StreamPtys(f.id)
    BY SamePtys
  <2> QED
    BY <2>1, Zenon DEF Got
<1>1. cur_rx_stream \in StreamPtys(f.id)
  BY DEF Got
<1>2. PICK h, d \in Seq(Byte) : f.payload = d \o e /\ out[cur_rx_stream] = h \o d
  BY DEF Got
<1>3. OutType /\ TableType /\ Head(e) \in Byte /\ Tail(e) \in Seq(Byte)
  BY TypeParts, HeadAndTail DEF DemuxInv, TableInv
<1>4. cur_rx_stream \in PtyIdx /\ cur_rx_stream # RAW_CCPLEX /\ cur_rx_stream >= 0
  BY <1>1, <1>3, StreamPtysAre DEF PtyIdx
<1>5. o \in [PtyIdx -> Seq(Byte)] /\ o[cur_rx_stream] = out[cur_rx_stream]
  BY <1>3, <1>4, MirrorElsewhere DEF OutType
<1>6. out' = Put(o, cur_rx_stream, Head(e))
  <2>1. cur_rx_stream \in Int
    BY <1>4, MaxPtyAssumption DEF PtyIdx
  <2>2. FlushStream(o, cur_rx_stream, Head(e))
    BY <1>4, <2>1
  <2> QED
    BY <2>2 DEF FlushStream
<1>7. out'[cur_rx_stream] = Append(h \o d, Head(e))
  BY <1>2, <1>4, <1>5, <1>6 DEF Put
<1> DEFINE b == Head(e)
           r == Tail(e)
<1>8. b \in Byte /\ r \in Seq(Byte) /\ e = <<b>> \o r
  BY <1>3, HeadAndTail
<1> HIDE DEF b, r
<1>9. d \o <<b>> \in Seq(Byte) /\ <<b>> \in Seq(Byte)
  BY <1>8
<1>10. Append(h \o d, b) = h \o (d \o <<b>>)
  <2>1. h \o d \in Seq(Byte)
    BY <1>2
  <2>2. Append(h \o d, b) = (h \o d) \o <<b>>
    BY <1>8, <2>1, AppendIsConcat
  <2>3. Regrouped(h, d, <<b>>)
    BY <1>2, <1>9, Regroup
  <2> QED
    BY <2>2, <2>3, Zenon DEF Regrouped
<1>11. d \o e = (d \o <<b>>) \o r
  <2>1. Regrouped(d, <<b>>, r)
    BY <1>2, <1>8, <1>9, Regroup
  <2> QED
    BY <1>8, <2>1, Zenon DEF Regrouped
<1> QED
  BY <1>1, <1>2, <1>7, <1>9, <1>10, <1>11, Zenon DEF b, r

\* Framing selects the PTY of the stream.
LEMMA GotSelected ==
    ASSUME DemuxInv, DemuxInv', NEW f \in DataRecord, NEW o \in {out, Mirrored(f.id)},
           EscapeStream(f.id, o), UNCHANGED start
    PROVE  Got(f, f.payload)'
<1>1. UNCHANGED table /\ out' = o /\ f.id \in Byte /\ f.payload \in Seq(Byte) /\ f.id \in ValidStreamId
  <2>1. f.id \in Byte /\ f.payload \in Seq(Byte) /\ f.id \in ValidStreamId
    BY FrameBytes
  <2> QED
    BY <2>1 DEF EscapeStream
<1>2. StreamPtys(f.id)' = StreamPtys(f.id)
  BY <1>1, SamePtys
<1> SUFFICES ASSUME NEW p \in StreamPtys(f.id)
             PROVE  /\ cur_rx_stream' \in StreamPtys(f.id)
                    /\ \E h, d \in Seq(Byte) : f.payload = d \o f.payload /\ out'[cur_rx_stream'] = h \o d
  BY <1>2, Zenon DEF Got
<1>3. p \in Registered /\ tags[p].value = f.id
  BY DEF StreamPtys
<1>4. Known(f.id)
  BY <1>3 DEF Known
<1>5. PICK i \in Registered : IsPtyOf(i, f.id) /\ cur_rx_stream' = i
  BY <1>4 DEF EscapeStream
<1>6. tags[i].value = f.id /\ f.id # 0
  BY <1>1, <1>5 DEF IsPtyOf, ValidStreamId
<1>7. i >= BuiltinCount
  <2>1. TableShape /\ num_proc \in Nat
    BY DEF DemuxInv, TableInv, TypeOK, BuiltinCount
  <2> QED
    BY <1>5, <1>6, <2>1 DEF TableShape, Registered, BuiltinCount
<1>8. i \in StreamPtys(f.id)
  BY <1>5, <1>6, <1>7 DEF StreamPtys
<1>9. out' \in [PtyIdx -> Seq(Byte)] /\ i \in PtyIdx
  <2>1. TableType
    BY TypeParts DEF DemuxInv
  <2> QED
    BY <1>8, <2>1, StreamPtysAre DEF DemuxInv, TypeOK
<1> DEFINE h == out'[i]
           x == f.payload
<1>10. h \in Seq(Byte) /\ x \in Seq(Byte)
  BY <1>1, <1>9
<1> HIDE DEF h, x
<1>11. h = h \o <<>> /\ x = <<>> \o x /\ <<>> \in Seq(Byte)
  BY <1>10
<1> QED
  BY <1>5, <1>8, <1>10, <1>11, Zenon DEF h, x

\* A framing byte gives the streams nothing.
LEMMA GotSame ==
    ASSUME DemuxInv, NEW f \in DataRecord, NEW e, Got(f, e), NEW ch \in Byte,
           NEW o \in {out, Mirrored(ch)}, out' = o,
           UNCHANGED <<cur_rx_stream, table, start>>
    PROVE  Got(f, e)'
<1>1. StreamPtys(f.id)' = StreamPtys(f.id)
  BY SamePtys
<1>2. OutType /\ TableType
  BY TypeParts DEF DemuxInv
<1>3. cur_rx_stream \in StreamPtys(f.id) => out'[cur_rx_stream] = out[cur_rx_stream]
  BY <1>2, MirrorElsewhere, StreamPtysAre
<1> QED
  BY <1>1, <1>3, Zenon DEF Got

\* The end of a frame
LEMMA FrameEnds ==
    ASSUME DemuxInv, DemuxInv', NEW f \in DataRecord, Got(f, <<>>),
           NEW o \in {out, Mirrored(DEFAULT)}, EscapeDefault(DEFAULT, o), UNCHANGED start
    PROVE  Finished(f, <<>>)'
<1>1. UNCHANGED table /\ ParserRest' /\ out' = o
  BY DEF EscapeDefault, ParserRest, control
<1>2. StreamPtys(f.id)' = StreamPtys(f.id)
  BY <1>1, SamePtys
<1>3. SUFFICES ASSUME start = "rest", StreamPtys(f.id) # {}
      PROVE  \E h \in Seq(Byte) : Delivered(f.id)' = h \o f.payload
  BY <1>1, <1>2 DEF Finished
<1>4. OutType /\ TableType /\ TableInv' /\ DEFAULT \in Byte
  BY TypeParts, ProtocolBytes DEF DemuxInv
<1>5. cur_rx_stream \in StreamPtys(f.id)
  BY <1>3 DEF Got
<1>6. PICK h, d \in Seq(Byte) : f.payload = d \o <<>> /\ out[cur_rx_stream] = h \o d
  BY <1>3 DEF Got
<1>7. out'[cur_rx_stream] = out[cur_rx_stream]
  BY <1>1, <1>4, <1>5, MirrorElsewhere, StreamPtysAre
<1>8. cur_rx_stream \in StreamPtys(f.id)'
  BY <1>2, <1>5
<1>9. Delivered(f.id)' = out'[cur_rx_stream]
  BY <1>4, <1>8, DeliveredIsThen
<1>10. d \o <<>> = d
  BY <1>6
<1> QED
  BY <1>6, <1>7, <1>9, <1>10

\* A byte of the frame takes the parser one place further.
LEMMA WithinMoves ==
    ASSUME DemuxInv, DemuxInv', NEW f \in DataRecord, NEW w \in Seq(Byte), w # <<>>, Within(f, w),
           start \in {"rest", "idle"},
           NEW o \in {out, Mirrored(Head(w))}, FeedVirtiosoByte(Head(w), o), alive', UNCHANGED start
    PROVE  Within(f, Tail(w))'
<1> DEFINE ch == Head(w)
           rest == Tail(w)
<1>1. control_state = "IDLE" /\ in_escape \in BOOLEAN /\ in_escape' \in BOOLEAN /\ ch \in Byte
  BY HeadAndTail DEF Within, DemuxInv, TypeOK
<1>2. /\ f.id \in Byte /\ f.payload \in Seq(Byte) /\ f.id \notin {DEFAULT, ESC, CONTROL}
      /\ ESC \in Byte /\ DEFAULT \in Byte /\ ESC # DEFAULT
      /\ <<f.id>> \o After(f.payload) \in Seq(Byte)
      /\ After(f.payload) \in Seq(Byte)
  BY FrameBytes, AfterType, ProtocolBytes
<1>3. /\ ~in_escape /\ ch = ESC => EscapeStart(ch, o)
      /\ ~in_escape /\ ch # ESC => Payload(ch, o)
      /\ in_escape /\ ch = DEFAULT => EscapeDefault(ch, o)
      /\ in_escape /\ ch = ESC => EscapeEscape(ch, o)
      /\ in_escape /\ ch \notin {DEFAULT, ESC, CONTROL} => EscapeStream(ch, o)
  BY <1>1, FramingBranch
<1>o. o \in {out, Mirrored(ch)}
  OBVIOUS
<1> HIDE DEF ch, rest
<1>s. EscapeStart(ch, o) => in_escape' /\ control_state' = "IDLE" /\ out' = o
                            /\ UNCHANGED <<cur_rx_stream, table>>
  BY <1>1 DEF EscapeStart, control
<1>e. EscapeEscape(ch, o) => /\ ~in_escape' /\ control_state' = "IDLE"
                             /\ UNCHANGED <<cur_rx_stream, table>>
                             /\ \/ cur_rx_stream >= 0 /\ FlushStream(o, cur_rx_stream, ch)
                                \/ cur_rx_stream < 0
  BY <1>1 DEF EscapeEscape, control
<1>p. Payload(ch, o) => /\ ~in_escape' /\ control_state' = "IDLE"
                        /\ UNCHANGED <<cur_rx_stream, table>>
                        /\ \/ cur_rx_stream >= 0 /\ FlushStream(o, cur_rx_stream, ch)
                           \/ cur_rx_stream < 0
  <2>1. cur_rx_stream \in Int
    BY MaxPtyAssumption DEF DemuxInv, TypeOK, PtyIdx
  <2> QED
    BY <1>1, <2>1 DEF Payload, control, parser
<1>4. ASSUME AtStart(f, w) PROVE Within(f, rest)'
  <2>1. ch = ESC /\ rest = <<f.id>> \o After(f.payload)
    BY <1>2, <1>4, FirstOf DEF AtStart, ch, rest
  <2>2. CASE ~in_escape
    <3>1. in_escape' /\ control_state' = "IDLE"
      BY <1>3, <1>s, <2>1, <2>2
    <3>2. AtId(f, rest)'
      BY <2>1, <3>1 DEF AtId
    <3> QED
      BY <3>1, <3>2 DEF Within
  <2>3. CASE in_escape
    <3>1. control_state' = "IDLE" /\ start = "idle"
      BY <1>3, <1>e, <1>4, <2>1, <2>3 DEF AtStart, ParserRest
    <3>2. AtId(f, rest)'
      BY <2>1, <3>1 DEF AtId
    <3> QED
      BY <3>1, <3>2 DEF Within
  <2> QED
    BY <1>1, <2>2, <2>3
<1>5. ASSUME AtId(f, w) PROVE Within(f, rest)'
  <2>1. ch = f.id /\ rest = After(f.payload)
    BY <1>2, <1>5, FirstOf DEF AtId, ch, rest
  <2>2. Got(f, f.payload)' /\ ~in_escape' /\ control_state' = "IDLE"
    <3>1. CASE in_escape
      <4>1. EscapeStream(f.id, o) /\ o \in {out, Mirrored(f.id)}
        BY <1>2, <1>3, <1>o, <2>1, <3>1
      <4>2. Got(f, f.payload)'
        BY <4>1, GotSelected
      <4> QED
        BY <4>1, <4>2, <1>1 DEF EscapeStream, control
    <3>2. CASE ~in_escape
      <4>1. start' = "idle"
        BY <1>5, <3>2 DEF AtId
      <4>2. Got(f, f.payload)'
        BY <4>1 DEF Got
      <4> QED
        BY <4>2, <1>2, <1>3, <1>p, <2>1, <3>2
    <3> QED
      BY <1>1, <3>1, <3>2
  <2>3. InPayload(f, f.payload, rest)'
    BY <2>1, <2>2 DEF InPayload
  <2> QED
    BY <1>2, <2>2, <2>3 DEF Within
<1>6. ASSUME NEW e \in Seq(Byte), InPayload(f, e, w) PROVE Within(f, rest)'
  <2>1. ~in_escape /\ w = EscapePayload(e) \o DataEnd /\ Got(f, e)
    BY <1>6 DEF InPayload, After
  <2>2. CASE e = <<>>
    <3>1. w = <<ESC>> \o <<DEFAULT>> /\ <<DEFAULT>> \in Seq(Byte)
      <4>1. e = <<>> => EscapePayload(e) \o DataEnd = <<ESC>> \o <<DEFAULT>>
        BY DataLeft
      <4> QED
        BY <1>2, <2>1, <2>2, <4>1
    <3>2. ch = ESC /\ rest = <<DEFAULT>>
      BY <1>2, <3>1, FirstOf DEF ch, rest
    <3>3. EscapeStart(ch, o)
      BY <1>3, <2>1, <3>2
    <3>4. Got(f, <<>>)'
      BY <1>1, <1>o, <1>s, <2>1, <2>2, <3>3, GotSame
    <3>5. AtEnd(f, rest)'
      BY <1>s, <3>2, <3>3, <3>4 DEF AtEnd
    <3> QED
      BY <1>s, <3>3, <3>5 DEF Within
  <2>3. CASE e # <<>> /\ Head(e) = ESC
    <3>1. w = <<ESC>> \o (<<ESC>> \o After(Tail(e))) /\ After(Tail(e)) \in Seq(Byte)
      BY <2>1, <2>3, DataLeft DEF After
    <3>2. ch = ESC /\ rest = <<ESC>> \o After(Tail(e))
      <4>1. <<ESC>> \o After(Tail(e)) \in Seq(Byte)
        BY <1>2, <3>1, FirstOf
      <4> QED
        BY <1>2, <3>1, <4>1, FirstOf DEF ch, rest
    <3>3. EscapeStart(ch, o)
      BY <1>3, <2>1, <3>2
    <3>4. Got(f, e)'
      BY <1>1, <1>o, <1>s, <2>1, <3>3, GotSame
    <3>5. InLiteral(f, e, rest)'
      BY <1>s, <2>3, <3>2, <3>3, <3>4 DEF InLiteral
    <3> QED
      BY <1>s, <3>3, <3>5 DEF Within
  <2>4. CASE e # <<>> /\ Head(e) # ESC
    <3>1. w = <<Head(e)>> \o After(Tail(e)) /\ After(Tail(e)) \in Seq(Byte)
          /\ Head(e) \in Byte /\ Tail(e) \in Seq(Byte)
      BY <2>1, <2>4, DataLeft DEF After
    <3>2. ch = Head(e) /\ rest = After(Tail(e))
      BY <3>1, FirstOf DEF ch, rest
    <3>3. Payload(ch, o)
      BY <1>3, <2>1, <2>4, <3>2
    <3>4. Got(f, Tail(e))'
      BY <1>o, <1>p, <2>1, <2>4, <3>2, <3>3, GotMore
    <3>5. InPayload(f, Tail(e), rest)'
      BY <1>p, <3>2, <3>3, <3>4 DEF InPayload
    <3> QED
      BY <1>p, <3>1, <3>3, <3>5 DEF Within
  <2> QED
    BY <2>2, <2>3, <2>4
<1>7. ASSUME NEW e \in Seq(Byte), InLiteral(f, e, w) PROVE Within(f, rest)'
  <2>1. in_escape /\ e # <<>> /\ Head(e) = ESC /\ w = <<ESC>> \o After(Tail(e)) /\ Got(f, e)
    BY <1>7 DEF InLiteral
  <2>2. Tail(e) \in Seq(Byte) /\ After(Tail(e)) \in Seq(Byte)
    BY <2>1, HeadAndTail, AfterType
  <2>3. ch = Head(e) /\ ch = ESC /\ rest = After(Tail(e))
    BY <1>2, <2>1, <2>2, FirstOf DEF ch, rest
  <2>4. EscapeEscape(ch, o)
    BY <1>3, <2>1, <2>3
  <2>5. Got(f, Tail(e))'
    BY <1>o, <1>e, <2>1, <2>3, <2>4, GotMore
  <2>6. InPayload(f, Tail(e), rest)'
    BY <1>e, <2>3, <2>4, <2>5 DEF InPayload
  <2> QED
    BY <1>e, <2>2, <2>4, <2>6 DEF Within
<1>8. ASSUME AtEnd(f, w) PROVE Within(f, rest)'
  <2>1. in_escape /\ ch = DEFAULT /\ rest = <<>> /\ Got(f, <<>>)
    BY <1>2, <1>8 DEF AtEnd, ch, rest
  <2>2. EscapeDefault(DEFAULT, o) /\ o \in {out, Mirrored(DEFAULT)}
    BY <1>3, <1>o, <2>1
  <2>3. Finished(f, rest)'
    BY <2>1, <2>2, FrameEnds
  <2> QED
    BY <2>3 DEF Within, Finished, ParserRest
<1> QED
  BY <1>4, <1>5, <1>6, <1>7, <1>8 DEF Within, Finished, rest

\* A frame that is sent is in front of the parser.
LEMMA FrameSent ==
    ASSUME SInv, NEW script \in Scripts, Send(script)
    PROVE  FrameInv'
<1>1. PICK f : f = script[Len(sent) + 1]
  OBVIOUS
<1>2. f \in Record /\ sent' = Append(sent, f) /\ sent \in Seq(Record)
  BY <1>1, NextRecord DEF SInv, Send
<1>3. Last(sent') = f
  BY <1>2 DEF Last
<1> SUFFICES ASSUME start' \in {"rest", "idle"}, f.kind = "data"
             PROVE  \E w \in Seq(Byte) : Carries(w)' /\ Within(f, w)'
  BY <1>3, Zenon DEF FrameInv
<1>4. f \in DataRecord
  BY <1>2 DEF Record, DataRecord
<1>5. /\ OuterOpen /\ control_state = "IDLE" /\ (start' = "rest" => ParserRest)
      /\ UNCHANGED vars /\ wire' = EncodeOuter(EncodeFrame(f))
  BY <1>1 DEF Send, ParserRest
<1>6. EncodeFrame(f) = <<ESC>> \o (<<f.id>> \o After(f.payload)) /\ EncodeFrame(f) \in Seq(Byte)
  BY <1>4, FrameBytes
<1>7. PICK w : w = EncodeFrame(f)
  OBVIOUS
<1>8. w = <<ESC>> \o (<<f.id>> \o After(f.payload)) /\ w \in Seq(Byte) /\ wire' = EncodeOuter(w)
      /\ UNCHANGED outer
  BY <1>5, <1>6, <1>7 DEF vars
<1>9. Carries(w)'
  BY <1>5, <1>8, CarriesRecord
<1>10. UNCHANGED <<control_state, in_escape, cur_rx_stream>>
  BY <1>5 DEF vars, parser, control
<1>11. AtStart(f, w)' /\ control_state' = "IDLE"
  BY <1>5, <1>8, <1>10 DEF AtStart, ParserRest
<1> QED
  BY <1>8, <1>9, <1>11 DEF Within

\* The parser has its place in the frame as long as its variables, the streams and
\* what they were given stay the same.
LEMMA WithinSame ==
    ASSUME NEW f, NEW w, Within(f, w),
           UNCHANGED <<control_state, in_escape, cur_rx_stream, tags, num_proc, out, start>>
    PROVE  Within(f, w)'
<1>1. StreamPtys(f.id)' = StreamPtys(f.id)
  BY DEF StreamPtys, Registered
<1>2. Delivered(f.id)' = Delivered(f.id)
  <2>1. CASE StreamPtys(f.id) = {}
    BY <1>1, <2>1 DEF Delivered
  <2>2. CASE StreamPtys(f.id) # {}
    <3>1. (CHOOSE p \in StreamPtys(f.id)' : TRUE) = (CHOOSE p \in StreamPtys(f.id) : TRUE)
      BY <1>1, Zenon
    <3> QED
      BY <1>1, <2>2, <3>1 DEF Delivered
  <2> QED
    BY <2>1, <2>2
<1>3. \A e : Got(f, e) => Got(f, e)'
  BY <1>1, Zenon DEF Got
<1>4. ParserRest' = ParserRest
  BY DEF ParserRest
<1>5. /\ AtStart(f, w) => AtStart(f, w)'
      /\ AtId(f, w) => AtId(f, w)'
      /\ AtEnd(f, w) => AtEnd(f, w)'
      /\ Finished(f, w) => Finished(f, w)'
  BY <1>1, <1>2, <1>3, <1>4 DEF AtStart, AtId, AtEnd, Finished
<1>6. \A e : (InPayload(f, e, w) => InPayload(f, e, w)') /\ (InLiteral(f, e, w) => InLiteral(f, e, w)')
  BY <1>3 DEF InPayload, InLiteral
<1> QED
  BY <1>5, <1>6 DEF Within

\* A byte arrives.
LEMMA FrameReceived ==
    ASSUME SInv, SInv', FrameInv, Receive
    PROVE  FrameInv'
<1>1. /\ DemuxInv /\ DemuxInv' /\ wire \in Seq(Byte) /\ sent \in Seq(Record)
      /\ wire # <<>> /\ wire' = Tail(wire) /\ Feed(Head(wire)) /\ UNCHANGED <<sent, start>>
  BY DEF SInv, Receive
<1>f. PICK f : f = Last(sent)
  OBVIOUS
<1>c. PICK ch : ch = Head(wire)
  OBVIOUS
<1>2. alive /\ OuterMoves(ch)
      /\ (Passes(ch) => ~alive' \/ \E o \in {out, Mirrored(ch)} : FeedVirtiosoByte(ch, o))
      /\ (~Passes(ch) /\ ~(outer_in_escape /\ ch = OUTER_RESET) => UnchangedInner)
  BY <1>1, <1>c, FeedMoves
<1> SUFFICES ASSUME alive', start \in {"rest", "idle"}, sent # <<>>, f.kind = "data"
             PROVE  \E w \in Seq(Byte) : Carries(w)' /\ Within(f, w)'
  BY <1>1, <1>f, Zenon DEF FrameInv
<1>3. PICK w \in Seq(Byte) : Carries(w) /\ Within(f, w)
  BY <1>2, <1>f DEF FrameInv
<1>4. f \in DataRecord
  <2>1. f \in Record
    BY <1>1, <1>f DEF Last
  <2> QED
    BY <2>1 DEF Record, DataRecord
<1>5. \/ Passes(ch) /\ w # <<>> /\ Head(w) = ch /\ Carries(Tail(w))'
      \/ ~Passes(ch) /\ Carries(w)' /\ ~(outer_in_escape /\ ch = OUTER_RESET)
  BY <1>1, <1>2, <1>3, <1>c, CarriesOn
<1>6. CASE Passes(ch) /\ w # <<>> /\ Head(w) = ch /\ Carries(Tail(w))'
  <2>1. PICK o \in {out, Mirrored(ch)} : FeedVirtiosoByte(ch, o)
    BY <1>2, <1>6
  <2>2. Within(f, Tail(w))'
    BY <1>1, <1>3, <1>4, <1>6, <2>1, WithinMoves
  <2>3. Tail(w) \in Seq(Byte)
    BY <1>6, HeadAndTail
  <2> QED
    BY <1>6, <2>2, <2>3
<1>7. CASE ~Passes(ch) /\ Carries(w)' /\ ~(outer_in_escape /\ ch = OUTER_RESET)
  <2>1. UNCHANGED <<control_state, in_escape, cur_rx_stream, tags, num_proc, out, start>>
    BY <1>1, <1>2, <1>7 DEF UnchangedInner, control, parser, table
  <2>2. Within(f, w)'
    BY <1>3, <2>1, WithinSame
  <2> QED
    BY <1>7, <2>2
<1> QED
  BY <1>5, <1>6, <1>7

\* A step that leaves the link and the parser alone
LEMMA CarriesSame ==
    ASSUME NEW w, Carries(w), UNCHANGED <<wire, outer>>
    PROVE  Carries(w)'
<1>1. UNCHANGED <<wire, outer_in_escape, cur_outer_tag>>
  BY DEF outer
<1>2. Doubling(w) => Doubling(w)'
  BY <1>1, Zenon DEF Doubling
<1>3. \A r : Reading(r) => Reading(r)'
  BY <1>1, Zenon DEF Reading, Passing, Leaving, Away, Returning, Returned
<1> QED
  BY <1>1, <1>2, <1>3, Zenon DEF Carries

\* Every step keeps the invariant.
LEMMA FrameStep ==
    ASSUME SInv, SInv', FrameInv, [SNext]_<<uvars, i_pty>>
    PROVE  FrameInv'
<1>1. ASSUME UNCHANGED <<alive, outer, parser, control, tags, num_proc, out, wire, sent, start>>
      PROVE  FrameInv'
  <2>1. UNCHANGED <<control_state, in_escape, cur_rx_stream, tags, num_proc, out, start>>
        /\ UNCHANGED <<alive, wire, outer, sent>>
    BY <1>1 DEF parser, control
  <2> SUFFICES ASSUME NEW w \in Seq(Byte), Carries(w), Within(Last(sent), w)
               PROVE  Carries(w)' /\ Within(Last(sent), w)'
    BY <2>1, Zenon DEF FrameInv
  <2>2. Carries(w)'
    BY <2>1, CarriesSame
  <2>3. PICK f : f = Last(sent)
    OBVIOUS
  <2>4. Within(f, w)
    BY <2>3
  <2>5. Within(f, w)'
    BY <2>1, <2>4, WithinSame
  <2>6. Last(sent)' = f
    BY <2>1, <2>3
  <2> QED
    BY <2>2, <2>5, <2>6, Zenon
<1>2. CASE UNCHANGED <<uvars, i_pty>> \/ SpawnPtyThread \/ MainJoins
  BY <1>1, <1>2 DEF uvars, vars, table, SpawnPtyThread, MainJoins
<1>3. ASSUME NEW tag \in ChipTags \ {OuterTag}, NEW ch \in {0, ESC}, OtherChip(tag, ch)
      PROVE  FrameInv'
  <2>1. UNCHANGED <<control_state, in_escape, cur_rx_stream, tags, num_proc, out, start>>
        /\ UNCHANGED <<alive, sent>>
    BY <1>3 DEF OtherChip, vars, parser, control, table
  <2> SUFFICES ASSUME NEW w \in Seq(Byte), Carries(w), Within(Last(sent), w)
               PROVE  Carries(w)' /\ Within(Last(sent), w)'
    BY <2>1, Zenon DEF FrameInv
  <2>2. Carries(w)'
    BY <1>3, CarriesInterrupted
  <2>3. PICK f : f = Last(sent)
    OBVIOUS
  <2>4. Within(f, w)
    BY <2>3
  <2>5. Within(f, w)'
    BY <2>1, <2>4, WithinSame
  <2>6. Last(sent)' = f
    BY <2>1, <2>3
  <2> QED
    BY <2>2, <2>5, <2>6, Zenon
<1>4. CASE TargetReset \/ Hangup \/ TtyFails
  BY <1>4 DEF TargetReset, Hangup, TtyFails, FrameInv
<1> QED
  BY <1>2, <1>3, <1>4, FrameSent, FrameReceived DEF SNext, TtyThread, UNext

\* The damage of a hangup or a restart, after which feed_virtioso_byte has lost its
\* place, ends with the next data frame that begins outside a control record, and
\* a frame that begins at rest is delivered whole: for every series of records,
\* every payload, and whatever other chips print in between.
THEOREM Resyncs == SSpec => []ResyncsAfterLoss
<1>1. SInit => FrameInv
  BY DEF SInit, LinkInit, FrameInv
<1>2. SInv /\ FrameInv => ResyncsAfterLoss
  <2> DEFINE f == Last(sent)
  <2> SUFFICES ASSUME SInv, FrameInv, wire = <<>>, alive, start \in {"rest", "idle"}, sent # <<>>,
                      f.kind = "data"
               PROVE  /\ ParserRest
                      /\ start = "rest" /\ StreamPtys(f.id) # {} => IsSuffix(f.payload, Delivered(f.id))
    BY DEF ResyncsAfterLoss
  <2>1. f \in DataRecord
    <3>1. f \in Record
      BY DEF SInv, Last
    <3> HIDE DEF f
    <3> QED
      BY <3>1 DEF Record, DataRecord
  <2>2. PICK w \in Seq(Byte) : Carries(w) /\ Within(f, w)
    BY DEF FrameInv
  <2>3. w = <<>>
    BY <2>2, CarriesNothing
  <2> HIDE DEF f
  <2>4. Finished(f, <<>>)
    <3>1. ~AtStart(f, <<>>) /\ ~AtId(f, <<>>)
      <4>1. After(f.payload) \in Seq(Byte) /\ f.id \in Byte /\ ESC \in Byte
            /\ <<f.id>> \o After(f.payload) \in Seq(Byte)
        BY <2>1, FrameBytes, AfterType, ProtocolBytes
      <4>2. <<f.id>> \o After(f.payload) # <<>>
        BY <4>1, FirstOf
      <4>3. <<ESC>> \o (<<f.id>> \o After(f.payload)) # <<>>
        BY <4>1, FirstOf
      <4> QED
        BY <4>2, <4>3 DEF AtStart, AtId
    <3>2. ~AtEnd(f, <<>>)
      BY DEF AtEnd
    <3>3. \A e \in Seq(Byte) : ~InPayload(f, e, <<>>) /\ ~InLiteral(f, e, <<>>)
      <4> SUFFICES ASSUME NEW e \in Seq(Byte)
                   PROVE  ~InPayload(f, e, <<>>) /\ ~InLiteral(f, e, <<>>)
        OBVIOUS
      <4>1. After(e) # <<>>
        BY AfterType
      <4>2. e # <<>> => <<ESC>> \o After(Tail(e)) # <<>>
        <5> SUFFICES ASSUME e # <<>> PROVE <<ESC>> \o After(Tail(e)) # <<>>
          OBVIOUS
        <5>1. After(Tail(e)) \in Seq(Byte) /\ ESC \in Byte
          BY HeadAndTail, AfterType, ProtocolBytes
        <5> QED
          BY <5>1, FirstOf
      <4> QED
        BY <4>1, <4>2 DEF InPayload, InLiteral
    <3> QED
      BY <2>2, <2>3, <3>1, <3>2, <3>3 DEF Within
  <2>5. ASSUME start = "rest", StreamPtys(f.id) # {}
        PROVE  IsSuffix(f.payload, Delivered(f.id))
    <3>1. PICK h \in Seq(Byte) : Delivered(f.id) = h \o f.payload
      BY <2>4, <2>5 DEF Finished
    <3>2. f.payload \in Seq(Byte)
      BY <2>1, FrameBytes
    <3>3. IsSuffix(f.payload, h \o f.payload)
      BY <3>2, BackIsSuffix
    <3> QED
      BY <3>1, <3>3, Zenon
  <2> QED
    BY <2>4, <2>5 DEF Finished
<1>3. SInv /\ SInv' /\ FrameInv /\ [SNext]_<<uvars, i_pty>> => FrameInv'
  BY FrameStep
<1> QED
  BY <1>1, <1>2, <1>3, SInductive, PTL DEF SSpec

-----------------------------------------------------------------------------
(* What a series of records means.                                         *)

\* it folds Meaning over the first n records, as FoldLeft defines it: on sets of
\* positions, of which it takes the largest first.
Tells(it, records, n) ==
    it = [s \in SUBSET (1..n) |->
             IF s = {} THEN Nothing ELSE Meaning(it[s \ {Max(s)}], records[Max(s)])]

\* What the fold is at the positions s
TellsOf(it, records, s) ==
    it[s] = IF s = {} THEN Nothing ELSE Meaning(it[s \ {Max(s)}], records[Max(s)])

\* The recursive equation of the fold, one index at a time
LEMMA TellsAt ==
    ASSUME NEW it, NEW records, NEW n, Tells(it, records, n), NEW s \in SUBSET (1..n)
    PROVE  TellsOf(it, records, s)
<1> DEFINE dom == SUBSET (1..n)
           r == [u \in dom |-> IF u = {} THEN Nothing ELSE Meaning(it[u \ {Max(u)}], records[Max(u)])]
<1>1. it = r /\ s \in dom
  BY Zenon DEF Tells
<1> HIDE DEF dom
<1>2. r[s] = IF s = {} THEN Nothing ELSE Meaning(it[s \ {Max(s)}], records[Max(s)])
  BY <1>1, Zenon
<1> QED
  BY <1>1, <1>2, Zenon DEF TellsOf

\* The recursive function of the fold exists for every length.
LEMMA TellsExists ==
    ASSUME NEW records
    PROVE  \A n \in Nat : \E it : Tells(it, records, n)
<1> DEFINE T == {n \in Nat : \E it : Tells(it, records, n)}
<1>1. 0 \in T
  <2> DEFINE it == [s \in SUBSET (1..0) |-> Nothing]
  <2>1. \A s \in SUBSET (1..0) : s = {}
    OBVIOUS
  <2>2. it = [s \in SUBSET (1..0) |->
                 IF s = {} THEN Nothing ELSE Meaning(it[s \ {Max(s)}], records[Max(s)])]
    BY <2>1, Zenon
  <2>3. Tells(it, records, 0)
    BY <2>2, Zenon DEF Tells
  <2> QED
    BY <2>3
<1>2. ASSUME NEW n \in Nat, n \in T PROVE n + 1 \in T
  <2>1. PICK g : Tells(g, records, n)
    BY <1>2
  <2> DEFINE h == [s \in SUBSET (1..(n + 1)) |->
                     IF n + 1 \in s THEN Meaning(g[s \ {n + 1}], records[n + 1]) ELSE g[s]]
             R(f, s) == IF s = {} THEN Nothing ELSE Meaning(f[s \ {Max(s)}], records[Max(s)])
  <2>2. \A s \in SUBSET (1..n) : s \in SUBSET (1..(n + 1)) /\ h[s] = g[s]
    <3> TAKE s \in SUBSET (1..n)
    <3>1. s \in SUBSET (1..(n + 1)) /\ n + 1 \notin s
      OBVIOUS
    <3> QED
      BY <3>1
  <2>3. ASSUME NEW s \in SUBSET (1..(n + 1)) PROVE h[s] = R(h, s)
    <3>1. CASE n + 1 \in s
      <4>1. Max(s) = n + 1 /\ s \ {Max(s)} \in SUBSET (1..n) /\ s # {}
        BY <3>1, MaxOfInitial
      <4>2. h[s] = Meaning(g[s \ {n + 1}], records[n + 1])
        BY <3>1
      <4>3. h[s \ {Max(s)}] = g[s \ {Max(s)}]
        BY <2>2, <4>1, Zenon
      <4> HIDE DEF h
      <4> QED
        BY <4>1, <4>2, <4>3
    <3>2. CASE n + 1 \notin s
      <4>1. s \in SUBSET (1..n) /\ s \ {Max(s)} \in SUBSET (1..n)
        <5>1. \A k \in 1..(n + 1) : k \in 1..n \/ k = n + 1
          OBVIOUS
        <5> QED
          BY <3>2, <5>1
      <4>2. h[s] = g[s] /\ h[s \ {Max(s)}] = g[s \ {Max(s)}]
        BY <2>2, <4>1, Zenon
      <4>3. g[s] = R(g, s)
        <5>1. TellsOf(g, records, s)
          BY <2>1, <4>1, TellsAt, Zenon
        <5> QED
          BY <5>1, Zenon DEF TellsOf
      <4> HIDE DEF h
      <4> QED
        BY <4>2, <4>3
    <3> QED
      BY <3>1, <3>2
  <2>4. h = [s \in SUBSET (1..(n + 1)) |-> h[s]]
    OBVIOUS
  <2> HIDE DEF h
  <2>5. h = [s \in SUBSET (1..(n + 1)) |-> R(h, s)]
    BY <2>3, <2>4
  <2>6. Tells(h, records, n + 1)
    BY <2>5, Zenon DEF Tells
  <2> QED
    BY <2>6
<1>3. Nat \subseteq T
  <2> HIDE DEF T
  <2> QED
    BY <1>1, <1>2, NatSetInduction
<1> QED
  BY <1>3

\* The first and the next step of the fold
LEMMA TellsNext ==
    ASSUME NEW it, NEW records, NEW m \in Nat, Tells(it, records, m)
    PROVE  /\ it[1..0] = Nothing
           /\ \A n \in Nat : n + 1 <= m => it[1..(n + 1)] = Meaning(it[1..n], records[n + 1])
<1>1. it[1..0] = Nothing
  <2>1. 1..0 = {} /\ {} \in SUBSET (1..m)
    OBVIOUS
  <2> QED
    BY <2>1, TellsAt, Zenon DEF TellsOf
<1>2. ASSUME NEW n \in Nat, n + 1 <= m PROVE it[1..(n + 1)] = Meaning(it[1..n], records[n + 1])
  <2> DEFINE s == 1..(n + 1)
  <2>1. s \in SUBSET (1..m) /\ s # {} /\ n + 1 \in s /\ s \in SUBSET (1..(n + 1)) /\ s \ {n + 1} = 1..n
    <3>1. n + 1 \in s /\ \A k \in s : k \in 1..m
      BY <1>2
    <3>2. \A k : k \in s \ {n + 1} <=> k \in 1..n
      OBVIOUS
    <3> HIDE DEF s
    <3>3. s \ {n + 1} = 1..n
      BY <3>2, Zenon
    <3> QED
      BY <3>1, <3>3 DEF s
  <2>2. Max(s) = n + 1
    BY <2>1, MaxOfInitial
  <2> HIDE DEF s
  <2>3. TellsOf(it, records, s)
    BY <2>1, TellsAt, Zenon
  <2>4. it[s] = Meaning(it[1..n], records[n + 1])
    BY <2>1, <2>2, <2>3 DEF TellsOf
  <2> QED
    BY <2>4 DEF s
<1> QED
  BY <1>1, <1>2

\* What the records sent so far mean
Total(records) == FoldLeft(Meaning, Nothing, records)

\* Total is the value of the fold at all positions.
LEMMA TotalIs ==
    ASSUME NEW S, NEW records \in Seq(S)
    PROVE  \E it : Tells(it, records, Len(records)) /\ Total(records) = it[1..Len(records)]
<1> DEFINE m == Len(records)
           it == CHOOSE g : Tells(g, records, m)
<1>1. m \in Nat /\ DOMAIN records = 1..m
  OBVIOUS
<1>2. Tells(it, records, m)
  BY <1>1, TellsExists
<1>3. Total(records) = it[1..m]
  BY <1>1 DEF Total, FoldLeft, MapThenFoldSet, Tells
<1> QED
  BY <1>2, <1>3

\* No records mean nothing, and one more record adds its meaning.
LEMMA TotalOf ==
    ASSUME NEW S, NEW records \in Seq(S), NEW f \in S
    PROVE  /\ Total(<<>>) = Nothing
           /\ Total(Append(records, f)) = Meaning(Total(records), f)
<1>1. Total(<<>>) = Nothing
  <2>1. <<>> \in Seq(S) /\ Len(<<>>) = 0
    OBVIOUS
  <2>2. PICK it : Tells(it, <<>>, 0) /\ Total(<<>>) = it[1..0]
    BY <2>1, TotalIs
  <2> QED
    BY <2>2, TellsNext
<1> DEFINE m == Len(records)
           more == Append(records, f)
<1>2. /\ m \in Nat /\ more \in Seq(S) /\ Len(more) = m + 1 /\ more[m + 1] = f
      /\ \A k \in 1..m : more[k] = records[k]
  OBVIOUS
<1>3. PICK a : Tells(a, records, m) /\ Total(records) = a[1..m]
  BY TotalIs
<1> HIDE DEF m, more
<1>4. PICK b : Tells(b, more, m + 1) /\ Total(more) = b[1..(m + 1)]
  BY <1>2, TotalIs
<1>5. /\ a[1..0] = Nothing
      /\ \A n \in Nat : n + 1 <= m => a[1..(n + 1)] = Meaning(a[1..n], records[n + 1])
  BY <1>2, <1>3, TellsNext
<1>6. /\ b[1..0] = Nothing
      /\ \A n \in Nat : n + 1 <= m + 1 => b[1..(n + 1)] = Meaning(b[1..n], more[n + 1])
  <2>1. m + 1 \in Nat
    BY <1>2
  <2> QED
    BY <2>1, <1>4, TellsNext
<1> DEFINE T == {n \in Nat : n <= m => a[1..n] = b[1..n]}
<1>7. 0 \in T
  BY <1>5, <1>6
<1>8. ASSUME NEW n \in Nat, n \in T PROVE n + 1 \in T
  <2> SUFFICES ASSUME n + 1 <= m PROVE a[1..(n + 1)] = b[1..(n + 1)]
    OBVIOUS
  <2>1. n + 1 \in 1..m /\ n <= m /\ n + 1 <= m + 1
    BY <1>2
  <2>2. more[n + 1] = records[n + 1] /\ a[1..n] = b[1..n]
    BY <1>2, <1>8, <2>1
  <2>3. a[1..(n + 1)] = Meaning(a[1..n], records[n + 1])
    BY <1>5
  <2>4. b[1..(n + 1)] = Meaning(b[1..n], more[n + 1])
    BY <1>6, <2>1
  <2> QED
    BY <2>2, <2>3, <2>4, Zenon
<1>9. Nat \subseteq T
  <2> HIDE DEF T
  <2> QED
    BY <1>7, <1>8, NatSetInduction
<1>10. a[1..m] = b[1..m]
  BY <1>2, <1>9
<1>11. b[1..(m + 1)] = Meaning(b[1..m], more[m + 1])
  BY <1>2, <1>6
<1> QED
  BY <1>1, <1>2, <1>3, <1>4, <1>10, <1>11, Zenon DEF more

-----------------------------------------------------------------------------
(* The demuxer while no call fails.                                        *)

\* What a byte does besides, when no call fails: payload is written, a record with
\* a length is read, a new stream is added, a good registry is applied.
Clean(ch, o) ==
    /\ control_state # "REGISTRY_JSON" => alive'
    /\ control_state \in {"REGISTRY_LEN_LO", "ANNOUNCE_LEN_LO"} =>
           (control_state' = "IDLE" <=> control_registry_len' = 0)
    /\ ControlAnnounce(ch, o) =>
           LET payload == Append(control_registry_json, ch)
           IN  /\ pending_ctrl_type = STREAM_CONNECTED =>
                      IF Known(Head(payload)) \/ TableFull(1) THEN UNCHANGED table
                      ELSE /\ tags' = [tags EXCEPT ![num_proc] =
                                  [name |-> Tail(payload), value |-> Head(payload), input |-> FALSE]]
                           /\ num_proc' = num_proc + 1
               /\ pending_ctrl_type # STREAM_CONNECTED => UNCHANGED table
    /\ ControlRegistry(ch, o) =>
           LET text == Append(control_registry_json, ch)
               new  == ListedStreams(text)
               good == WellFormedRegistry(text) /\ RegistryAcceptable(new)
           IN  IF virtioso_registry_json # <<>>
               THEN control_state' = "IDLE" /\ alive' /\ UNCHANGED <<virtioso_registry_json, table>>
               ELSE /\ virtioso_registry_json' = text
                    /\ alive' <=> good
                    /\ good => /\ control_state' = "IDLE"
                               /\ tags' = WithStreams(new) /\ num_proc' = num_proc + Len(new)

\* The bytes and the tuples of variables are the same.
LEMMA SameNames ==
    /\ FaultFree!ESC = ESC /\ FaultFree!CONTROL = CONTROL /\ FaultFree!DEFAULT = DEFAULT
    /\ FaultFree!NoStream = NoStream /\ FaultFree!PHYSICAL_UART_DEFAULT = PHYSICAL_UART_DEFAULT
    /\ FaultFree!RAW_CCPLEX = RAW_CCPLEX /\ FaultFree!BuiltinCount = BuiltinCount
    /\ FaultFree!STREAM_REGISTRY = STREAM_REGISTRY /\ FaultFree!DOWNLINK_ACK = DOWNLINK_ACK
    /\ FaultFree!STREAM_CONNECTED = STREAM_CONNECTED
    /\ FaultFree!STREAM_DISCONNECTED = STREAM_DISCONNECTED
    /\ FaultFree!OUTER_ESC = OUTER_ESC /\ FaultFree!OUTER_RESET = OUTER_RESET
    /\ FaultFree!Registered = Registered /\ FaultFree!PtyIdx = PtyIdx
    /\ FaultFree!Byte = Byte /\ FaultFree!ValidStreamId = ValidStreamId
BY Zenon DEF FaultFree!ESC, FaultFree!CONTROL, FaultFree!DEFAULT, FaultFree!NoStream,
   FaultFree!PHYSICAL_UART_DEFAULT, FaultFree!RAW_CCPLEX, FaultFree!BuiltinCount,
   FaultFree!STREAM_REGISTRY, FaultFree!DOWNLINK_ACK, FaultFree!STREAM_CONNECTED,
   FaultFree!STREAM_DISCONNECTED, FaultFree!OUTER_ESC, FaultFree!OUTER_RESET,
   FaultFree!Registered, FaultFree!PtyIdx, FaultFree!Byte, FaultFree!ValidStreamId,
   ESC, CONTROL, DEFAULT, NoStream, PHYSICAL_UART_DEFAULT, RAW_CCPLEX, BuiltinCount,
   STREAM_REGISTRY, DOWNLINK_ACK, STREAM_CONNECTED, STREAM_DISCONNECTED, OUTER_ESC,
   OUTER_RESET, Registered, PtyIdx, Byte, ValidStreamId

\* The actions no call can fail in are the same.
LEMMA SameActions ==
    ASSUME NEW ch, NEW o
    PROVE  /\ FaultFree!ControlCommand(ch, o) => ControlCommand(ch, o)
           /\ FaultFree!ControlLenHi(ch, o) => ControlLenHi(ch, o)
           /\ FaultFree!ControlPayload(ch, o) => ControlPayload(ch, o)
           /\ FaultFree!EscapeStart(ch, o) => EscapeStart(ch, o)
           /\ FaultFree!EscapeDefault(ch, o) => EscapeDefault(ch, o)
           /\ FaultFree!EscapeControl(ch, o) => EscapeControl(ch, o)
           /\ FaultFree!EscapeStream(ch, o) => EscapeStream(ch, o)
<1> USE SameNames DEF FaultFree!parser, parser, FaultFree!table, table, FaultFree!control, control
<1>1. FaultFree!ControlCommand(ch, o) => ControlCommand(ch, o)
  BY Zenon DEF FaultFree!ControlCommand, ControlCommand
<1>2. FaultFree!ControlLenHi(ch, o) => ControlLenHi(ch, o)
  BY Zenon DEF FaultFree!ControlLenHi, ControlLenHi
<1>3. FaultFree!ControlPayload(ch, o) => ControlPayload(ch, o)
  BY Zenon DEF FaultFree!ControlPayload, ControlPayload, FaultFree!LastByte, LastByte
<1>4. FaultFree!EscapeStart(ch, o) => EscapeStart(ch, o)
  BY Zenon DEF FaultFree!EscapeStart, EscapeStart
<1>5. FaultFree!EscapeDefault(ch, o) => EscapeDefault(ch, o)
  BY Zenon DEF FaultFree!EscapeDefault, EscapeDefault
<1>6. FaultFree!EscapeControl(ch, o) => EscapeControl(ch, o)
  BY Zenon DEF FaultFree!EscapeControl, EscapeControl
<1>7. FaultFree!EscapeStream(ch, o) => EscapeStream(ch, o)
  BY Zenon DEF FaultFree!EscapeStream, EscapeStream, FaultFree!IsPtyOf, IsPtyOf, FaultFree!Known, Known
<1> QED
  BY <1>1, <1>2, <1>3, <1>4, <1>5, <1>6, <1>7

\* So are the others, but for what fails.
LEMMA CleanActions ==
    ASSUME NEW ch, NEW o
    PROVE  /\ FaultFree!ControlLenLo(ch, o) =>
                  /\ ControlLenLo(ch, o)
                  /\ control_state' = "IDLE" <=> control_registry_len' = 0
           /\ FaultFree!EscapeEscape(ch, o) =>
                  /\ EscapeEscape(ch, o)
                  /\ alive => alive'
           /\ FaultFree!Payload(ch, o) => Payload(ch, o) /\ alive'
<1> USE SameNames DEF FaultFree!parser, parser, FaultFree!table, table, FaultFree!control, control
<1>1. FaultFree!ControlLenLo(ch, o) =>
         /\ ControlLenLo(ch, o)
         /\ control_state' = "IDLE" <=> control_registry_len' = 0
  <2>1. FaultFree!ControlLenLo(ch, o) => ControlLenLo(ch, o)
    BY DEF FaultFree!ControlLenLo, ControlLenLo
  <2>2. FaultFree!ControlLenLo(ch, o) => (control_state' = "IDLE" <=> control_registry_len' = 0)
    BY DEF FaultFree!ControlLenLo
  <2> QED
    BY <2>1, <2>2
<1>2. \A i : FaultFree!FlushStream(o, i, ch) => FlushStream(o, i, ch) /\ alive'
  BY DEF FaultFree!FlushStream, FlushStream, FaultFree!Put, Put
<1>3. FaultFree!EscapeEscape(ch, o) => EscapeEscape(ch, o) /\ (alive => alive')
  BY <1>2 DEF FaultFree!EscapeEscape, EscapeEscape
<1>4. FaultFree!Payload(ch, o) => Payload(ch, o) /\ alive'
  BY <1>2 DEF FaultFree!Payload, Payload
<1> QED
  BY <1>1, <1>3, <1>4

\* A new stream is added, and only one that is known or has no room is dropped.
LEMMA CleanAnnounce ==
    ASSUME NEW ch, NEW o, FaultFree!ControlAnnounce(ch, o)
    PROVE  /\ ControlAnnounce(ch, o)
           /\ LET payload == Append(control_registry_json, ch)
              IN  /\ pending_ctrl_type = STREAM_CONNECTED =>
                         IF Known(Head(payload)) \/ TableFull(1) THEN UNCHANGED table
                         ELSE /\ tags' = [tags EXCEPT ![num_proc] =
                                     [name |-> Tail(payload), value |-> Head(payload), input |-> FALSE]]
                              /\ num_proc' = num_proc + 1
                  /\ pending_ctrl_type # STREAM_CONNECTED => UNCHANGED table
<1> USE SameNames DEF FaultFree!parser, parser, FaultFree!table, table, FaultFree!control, control
<1> DEFINE payload == Append(control_registry_json, ch)
           i == Head(payload)
           n == Tail(payload)
<1>1. /\ Known(i) <=> FaultFree!Known(i)
      /\ TableFull(1) <=> FaultFree!TableFull(1)
  BY Zenon DEF FaultFree!Known, Known, FaultFree!TableFull, TableFull
<1>2. FaultFree!ApplyConnected(i, n) =>
         /\ ApplyConnected(i, n)
         /\ IF Known(i) \/ TableFull(1) THEN UNCHANGED table
            ELSE /\ tags' = [tags EXCEPT ![num_proc] = [name |-> n, value |-> i, input |-> FALSE]]
                 /\ num_proc' = num_proc + 1
  <2> HIDE DEF i, n
  <2>1. {} \cap {"alloc", "openpt"} = {}
    OBVIOUS
  <2>2. FaultFree!ApplyConnected(i, n) => ApplyConnected(i, n)
    BY <1>1, <2>1, Zenon DEF FaultFree!ApplyConnected, ApplyConnected
  <2>3. FaultFree!ApplyConnected(i, n) =>
           IF Known(i) \/ TableFull(1) THEN UNCHANGED table
           ELSE /\ tags' = [tags EXCEPT ![num_proc] = [name |-> n, value |-> i, input |-> FALSE]]
                /\ num_proc' = num_proc + 1
    BY <1>1, <2>1, Zenon DEF FaultFree!ApplyConnected
  <2> QED
    BY <2>2, <2>3
<1>3. /\ FaultFree!LastByte <=> LastByte
      /\ \/ pending_ctrl_type = STREAM_CONNECTED /\ FaultFree!ApplyConnected(i, n)
         \/ pending_ctrl_type # STREAM_CONNECTED /\ UNCHANGED table
  BY Zenon DEF FaultFree!ControlAnnounce, FaultFree!LastByte, LastByte
<1>4. ControlAnnounce(ch, o)
  BY <1>2, <1>3, Zenon DEF FaultFree!ControlAnnounce, ControlAnnounce
<1> QED
  BY <1>2, <1>3, <1>4, Zenon

\* A good registry is applied, and only a bad one ends the thread.
LEMMA CleanRegistry ==
    ASSUME NEW ch, NEW o, FaultFree!ControlRegistry(ch, o), alive
    PROVE  /\ ControlRegistry(ch, o)
           /\ LET text == Append(control_registry_json, ch)
                  new  == ListedStreams(text)
                  good == WellFormedRegistry(text) /\ RegistryAcceptable(new)
              IN  IF virtioso_registry_json # <<>>
                  THEN control_state' = "IDLE" /\ alive' /\ UNCHANGED <<virtioso_registry_json, table>>
                  ELSE /\ virtioso_registry_json' = text
                       /\ alive' <=> good
                       /\ good => /\ control_state' = "IDLE"
                                  /\ tags' = WithStreams(new) /\ num_proc' = num_proc + Len(new)
<1> USE SameNames DEF FaultFree!parser, parser, FaultFree!table, table, FaultFree!control, control
<1> DEFINE text == Append(control_registry_json, ch)
           new  == ListedStreams(text)
           good == WellFormedRegistry(text) /\ RegistryAcceptable(new)
<1>1. FaultFree!ListedStreams(text) = new
  <2>1. \A x : FaultFree!FlattenSeq(x) = FlattenSeq(x)
    BY Zenon DEF FaultFree!FlattenSeq, FlattenSeq
  <2>2. FaultFree!RegistryStreams(text) = RegistryStreams(text)
    BY Zenon DEF FaultFree!RegistryStreams, RegistryStreams
  <2> QED
    BY <2>1, <2>2, Zenon DEF FaultFree!ListedStreams, ListedStreams
<1> HIDE DEF text, new
<1>2. FaultFree!WithStreams(new) = WithStreams(new)
  BY Zenon DEF FaultFree!WithStreams, WithStreams, FaultFree!NewTag, NewTag
<1>3. (FaultFree!WellFormedRegistry(text) /\ FaultFree!RegistryAcceptable(new)) <=> good
  BY Zenon DEF FaultFree!WellFormedRegistry, WellFormedRegistry, FaultFree!RegistryAcceptable,
     RegistryAcceptable, FaultFree!TableFull, TableFull, FaultFree!Fresh, Fresh
<1> HIDE DEF good
<1>4. \A S : FaultFree!InputThreads(S) = InputThreads(S)
  BY Zenon DEF FaultFree!InputThreads, InputThreads
<1>5. FaultFree!ApplyRegistry(text) =>
         /\ ApplyRegistry(text)
         /\ alive' <=> good
         /\ good => tags' = WithStreams(new) /\ num_proc' = num_proc + Len(new)
  <2> SUFFICES ASSUME FaultFree!ApplyRegistry(text)
               PROVE  /\ ApplyRegistry(text)
                      /\ alive' <=> good
                      /\ good => tags' = WithStreams(new) /\ num_proc' = num_proc + Len(new)
    OBVIOUS
  <2> DEFINE all == [i \in num_proc..((num_proc + Len(new)) - 1) |-> WithStreams(new)[i]]
  <2>1. \/ /\ good
           /\ tags' = WithStreams(new)
           /\ num_proc' = num_proc + Len(new)
           /\ opened' = opened \cup (num_proc..((num_proc + Len(new)) - 1))
           /\ threads' = threads \cup InputThreads(all)
           /\ alive' = TRUE
        \/ /\ ~good
           /\ UNCHANGED <<tags, num_proc>>
           /\ alive' = FALSE
           /\ UNCHANGED <<opened, threads>>
    BY <1>1, <1>2, <1>3, <1>4, Zenon DEF FaultFree!ApplyRegistry, FaultFree!Rollback
  <2>2. ApplyRegistry(text)
    BY <2>1, Zenon DEF ApplyRegistry, Rollback, good, new
  <2> QED
    BY <2>1, <2>2
<1>6. FaultFree!LastByte <=> LastByte
  BY Zenon DEF FaultFree!LastByte, LastByte
<1>7. ControlRegistry(ch, o)
  BY <1>5, <1>6, Zenon DEF FaultFree!ControlRegistry, ControlRegistry, text
<1>8. IF virtioso_registry_json # <<>>
      THEN control_state' = "IDLE" /\ alive' /\ UNCHANGED <<virtioso_registry_json, table>>
      ELSE /\ virtioso_registry_json' = text
           /\ alive' <=> good
           /\ good => /\ control_state' = "IDLE"
                      /\ tags' = WithStreams(new) /\ num_proc' = num_proc + Len(new)
  BY <1>5, Zenon DEF FaultFree!ControlRegistry, text
<1> QED
  BY <1>7, <1>8, Zenon DEF text, new, good

\* A byte for the parser, when no call fails
LEMMA CleanByte ==
    ASSUME NEW ch, NEW o, FaultFree!FeedVirtiosoByte(ch, o), alive
    PROVE  FeedVirtiosoByte(ch, o) /\ Clean(ch, o)
<1>1. /\ FaultFree!ControlCommand(ch, o) => ControlCommand(ch, o) /\ alive'
      /\ FaultFree!ControlLenHi(ch, o) => ControlLenHi(ch, o) /\ alive'
      /\ FaultFree!ControlLenLo(ch, o) =>
            ControlLenLo(ch, o) /\ alive' /\ (control_state' = "IDLE" <=> control_registry_len' = 0)
      /\ FaultFree!ControlPayload(ch, o) => ControlPayload(ch, o) /\ alive'
      /\ FaultFree!ControlAnnounce(ch, o) => ControlAnnounce(ch, o) /\ alive'
      /\ FaultFree!ControlRegistry(ch, o) => ControlRegistry(ch, o)
  <2>1. /\ ControlCommand(ch, o) => alive'
        /\ ControlLenHi(ch, o) => alive'
        /\ ControlLenLo(ch, o) => alive'
        /\ ControlPayload(ch, o) => alive'
        /\ ControlAnnounce(ch, o) => alive'
    BY DEF ControlCommand, ControlLenHi, ControlLenLo, ControlPayload, ControlAnnounce
  <2> QED
    BY <2>1, SameActions, CleanActions, CleanAnnounce, CleanRegistry
<1>2. /\ FaultFree!EscapeStart(ch, o) => EscapeStart(ch, o) /\ alive'
      /\ FaultFree!EscapeDefault(ch, o) => EscapeDefault(ch, o) /\ alive'
      /\ FaultFree!EscapeEscape(ch, o) => EscapeEscape(ch, o) /\ alive'
      /\ FaultFree!EscapeControl(ch, o) => EscapeControl(ch, o) /\ alive'
      /\ FaultFree!EscapeStream(ch, o) => EscapeStream(ch, o) /\ alive'
      /\ FaultFree!Payload(ch, o) => Payload(ch, o) /\ alive'
  <2>1. /\ EscapeStart(ch, o) => alive'
        /\ EscapeDefault(ch, o) => alive'
        /\ EscapeControl(ch, o) => alive'
        /\ EscapeStream(ch, o) => alive'
    BY DEF EscapeStart, EscapeDefault, EscapeControl, EscapeStream
  <2> QED
    BY <2>1, SameActions, CleanActions
<1>3. \/ FaultFree!ControlCommand(ch, o) \/ FaultFree!ControlLenHi(ch, o)
      \/ FaultFree!ControlLenLo(ch, o) \/ FaultFree!ControlPayload(ch, o)
      \/ FaultFree!ControlRegistry(ch, o) \/ FaultFree!ControlAnnounce(ch, o)
      \/ FaultFree!EscapeStart(ch, o) \/ FaultFree!EscapeDefault(ch, o)
      \/ FaultFree!EscapeEscape(ch, o) \/ FaultFree!EscapeControl(ch, o)
      \/ FaultFree!EscapeStream(ch, o) \/ FaultFree!Payload(ch, o)
  BY DEF FaultFree!FeedVirtiosoByte
<1>4. FeedVirtiosoByte(ch, o)
  BY <1>1, <1>2, <1>3 DEF FeedVirtiosoByte
<1>5. /\ ControlCommand(ch, o) => control_state = "CMD"
      /\ ControlLenHi(ch, o) => control_state \in {"REGISTRY_LEN_HI", "ANNOUNCE_LEN_HI"}
      /\ ControlLenLo(ch, o) => control_state \in {"REGISTRY_LEN_LO", "ANNOUNCE_LEN_LO"}
      /\ ControlPayload(ch, o) => control_state \in {"REGISTRY_JSON", "ANNOUNCE_PAYLOAD"} /\ ~LastByte
      /\ ControlRegistry(ch, o) => control_state = "REGISTRY_JSON" /\ LastByte
      /\ ControlAnnounce(ch, o) => control_state = "ANNOUNCE_PAYLOAD" /\ LastByte
  BY DEF ControlCommand, ControlLenHi, ControlLenLo, ControlPayload, ControlRegistry, ControlAnnounce
<1>6. /\ EscapeStart(ch, o) => control_state = "IDLE"
      /\ EscapeDefault(ch, o) => control_state = "IDLE"
      /\ EscapeEscape(ch, o) => control_state = "IDLE"
      /\ EscapeControl(ch, o) => control_state = "IDLE"
      /\ EscapeStream(ch, o) => control_state = "IDLE"
      /\ Payload(ch, o) => control_state = "IDLE"
  BY DEF EscapeStart, EscapeDefault, EscapeEscape, EscapeControl, EscapeStream, Payload
<1>7. control_state # "REGISTRY_JSON" => alive'
  BY <1>1, <1>2, <1>3, <1>5
<1>8. control_state \in {"REGISTRY_LEN_LO", "ANNOUNCE_LEN_LO"} =>
           (control_state' = "IDLE" <=> control_registry_len' = 0)
  BY <1>1, <1>2, <1>3, <1>5, <1>6
<1>9. ControlAnnounce(ch, o) => FaultFree!ControlAnnounce(ch, o)
  BY <1>1, <1>2, <1>3, <1>5, <1>6
<1>10. ControlRegistry(ch, o) => FaultFree!ControlRegistry(ch, o)
  BY <1>1, <1>2, <1>3, <1>5, <1>6
<1> DEFINE payload == Append(control_registry_json, ch)
           new  == ListedStreams(payload)
           good == WellFormedRegistry(payload) /\ RegistryAcceptable(new)
<1>11. ControlAnnounce(ch, o) =>
          /\ pending_ctrl_type = STREAM_CONNECTED =>
                 IF Known(Head(payload)) \/ TableFull(1) THEN UNCHANGED table
                 ELSE /\ tags' = [tags EXCEPT ![num_proc] =
                             [name |-> Tail(payload), value |-> Head(payload), input |-> FALSE]]
                      /\ num_proc' = num_proc + 1
          /\ pending_ctrl_type # STREAM_CONNECTED => UNCHANGED table
  BY <1>9, CleanAnnounce, Zenon
<1>12. ControlRegistry(ch, o) =>
          IF virtioso_registry_json # <<>>
          THEN control_state' = "IDLE" /\ alive' /\ UNCHANGED <<virtioso_registry_json, table>>
          ELSE /\ virtioso_registry_json' = payload
               /\ alive' <=> good
               /\ good => /\ control_state' = "IDLE"
                          /\ tags' = WithStreams(new) /\ num_proc' = num_proc + Len(new)
  BY <1>10, CleanRegistry, Zenon
<1> QED
  BY <1>4, <1>7, <1>8, <1>11, <1>12, Zenon DEF Clean

\* A byte of the link, when no call fails
LEMMA CleanFeed ==
    ASSUME NEW ch, FaultFree!Feed(ch), Passes(ch), DemuxInv
    PROVE  \E o \in {out, Mirrored(ch)} : FeedVirtiosoByte(ch, o) /\ Clean(ch, o)
<1>1. alive /\ outer_in_escape \in BOOLEAN /\ OuterMode \in {"raw", "nvidia-tcu"}
      /\ OUTER_ESC # OUTER_RESET /\ OUTER_ESC \notin ChipTags
  BY OuterAssumption, TagBytes DEF FaultFree!Feed, DemuxInv, TypeOK
<1>2. FaultFree!Mirrored(ch) = Mirrored(ch)
  BY SameNames, Zenon DEF FaultFree!Mirrored, Mirrored, FaultFree!Put, Put
<1>3. FaultFree!MirrorAndFeed(ch) => FaultFree!FeedVirtiosoByte(ch, Mirrored(ch))
  <2>1. "log" \notin {} /\ "pty" \notin {}
    OBVIOUS
  <2> QED
    BY <1>2, <2>1, Zenon DEF FaultFree!MirrorAndFeed
<1>4. SUFFICES \E o \in {out, Mirrored(ch)} : FaultFree!FeedVirtiosoByte(ch, o)
  BY <1>1, CleanByte, Zenon
<1>5. CASE FaultFree!RawByte(ch)
  BY <1>3, <1>5 DEF FaultFree!RawByte
<1>6. CASE FaultFree!OuterPayload(ch)
  <2>1. cur_outer_tag = OuterTag
    BY <1>6 DEF Passes, FaultFree!OuterPayload
  <2> QED
    BY <1>3, <1>6, <2>1 DEF FaultFree!OuterPayload
<1>7. CASE FaultFree!OuterEscapeStart(ch)
  BY <1>7, SameNames DEF FaultFree!OuterEscapeStart, Passes
<1>8. CASE FaultFree!OuterEscapeEscape(ch)
  <2>1. cur_outer_tag = OuterTag /\ ch = OUTER_ESC
    BY <1>8, SameNames DEF Passes, FaultFree!OuterEscapeEscape
  <2>2. FaultFree!FeedVirtiosoByte(ch, out)
    BY <1>8, <2>1, SameNames, Zenon DEF FaultFree!OuterEscapeEscape
  <2> QED
    BY <2>2
<1>9. CASE FaultFree!OuterReset(ch)
  BY <1>1, <1>9, SameNames DEF FaultFree!OuterReset, Passes
<1>10. CASE FaultFree!OuterTagSwitch(ch)
  BY <1>1, <1>10, SameNames DEF FaultFree!OuterTagSwitch, Passes
<1> QED
  BY <1>5, <1>6, <1>7, <1>8, <1>9, <1>10 DEF FaultFree!Feed

-----------------------------------------------------------------------------
(* The host as the records describe it.                                    *)

KnownStream == [id: Byte \ {0}, name: Seq(Byte), input: BOOLEAN]

MState ==
    {m \in [streams: Seq(KnownStream), got: [PtyIdx -> Seq(Byte)], acks: Nat,
            registry: BOOLEAN, dead: BOOLEAN] : Len(m.streams) <= MaxPty - BuiltinCount}

\* The demuxer has done what m says, and its thread runs.
Agrees(m) ==
    /\ ~m.dead
    /\ num_proc = BuiltinCount + Len(m.streams)
    /\ \A k \in 1..Len(m.streams) : tags[BuiltinCount + k - 1] = NewTag(m.streams[k])
    /\ \A i \in 0..(BuiltinCount - 1) : tags[i].name = <<i>>
    /\ \A i \in PtyIdx \ {RAW_CCPLEX} : out[i] = m.got[i]
    /\ downlink_ack_count = m.acks
    /\ m.registry <=> virtioso_registry_json # <<>>

\* The streams a registry lists have an ID, a name and a direction.
LEMMA ListedType ==
    ASSUME NEW text \in Seq(Byte)
    PROVE  ListedStreams(text) \in Seq(KnownStream)
<1> DEFINE all == RegistryStreams(text)
           n == Len(text) \div 3
           S == [id: Byte \cup {-1}, name: Seq(Byte), input: BOOLEAN]
           part == [i \in 1..n |-> IF all[i].id >= 0 THEN <<all[i]>> ELSE <<>>]
<1>1. n \in Nat /\ \A i \in 1..n : 3*i - 2 \in 1..Len(text) /\ 3*i - 1 \in 1..Len(text) /\ 3*i \in 1..Len(text)
  <2>1. Len(text) \in Nat
    OBVIOUS
  <2> QED
    BY <2>1
<1>2. \A i \in 1..n : text[3*i - 2] \in Byte /\ text[3*i - 1] \in Byte
  BY <1>1, ElementOfSequence
<1>3. /\ DOMAIN all = 1..n
      /\ \A i \in 1..n : all[i] = [id |-> IF text[3*i - 2] = 0 THEN -1 ELSE text[3*i - 2],
                                   name |-> << text[3*i - 1] >>, input |-> text[3*i] = 1]
  BY DEF RegistryStreams
<1> HIDE DEF all, n
<1>4. \A i \in 1..n : all[i].id >= 0 => all[i] \in KnownStream
  <2> SUFFICES ASSUME NEW i \in 1..n, all[i].id >= 0 PROVE all[i] \in KnownStream
    OBVIOUS
  <2> DEFINE b == text[3*i - 2]
             c == text[3*i - 1]
             d == (text[3*i] = 1)
  <2>1. b \in Byte /\ c \in Byte /\ d \in BOOLEAN
    BY <1>2
  <2>2. all[i] = [id |-> IF b = 0 THEN -1 ELSE b, name |-> <<c>>, input |-> d]
    BY <1>3
  <2> HIDE DEF b, c, d
  <2>3. b # 0 /\ <<c>> \in Seq(Byte)
    BY <2>1, <2>2
  <2> QED
    BY <2>1, <2>2, <2>3 DEF KnownStream
<1>5. part \in Seq(Seq(KnownStream))
  <2>1. \A i \in 1..n : part[i] \in Seq(KnownStream)
    <3> SUFFICES ASSUME NEW i \in 1..n PROVE part[i] \in Seq(KnownStream)
      OBVIOUS
    <3>1. part[i] = IF all[i].id >= 0 THEN <<all[i]>> ELSE <<>>
      OBVIOUS
    <3>2. all[i].id >= 0 => <<all[i]>> \in Seq(KnownStream)
      BY <1>4
    <3>3. <<>> \in Seq(KnownStream)
      OBVIOUS
    <3> HIDE DEF part
    <3> QED
      BY <3>1, <3>2, <3>3, Zenon
  <2>2. part = [i \in 1..n |-> part[i]]
    OBVIOUS
  <2> HIDE DEF part
  <2>3. part \in [1..n -> Seq(KnownStream)]
    BY <2>1, <2>2
  <2> QED
    BY <1>1, <2>3
<1>6. ListedStreams(text) = FlattenSeq(part)
  BY <1>3, Zenon DEF ListedStreams, all
<1> HIDE DEF part
<1> QED
  BY <1>5, <1>6, FlattenType

\* At the start nothing is known.
LEMMA NothingType == Nothing \in MState
<1>1. <<>> \in Seq(KnownStream) /\ Len(<<>>) = 0 /\ <<>> \in Seq(Byte)
  OBVIOUS
<1> QED
  BY <1>1, MaxPtyAssumption DEF Nothing, MState, BuiltinCount

\* The fields of a state
LEMMA StateFields ==
    ASSUME NEW m \in MState
    PROVE  /\ m.streams \in Seq(KnownStream) /\ m.got \in [PtyIdx -> Seq(Byte)]
           /\ m.acks \in Nat /\ m.registry \in BOOLEAN /\ m.dead \in BOOLEAN
           /\ Len(m.streams) \in Nat /\ Len(m.streams) <= MaxPty - BuiltinCount
           /\ m = [streams |-> m.streams, got |-> m.got, acks |-> m.acks,
                   registry |-> m.registry, dead |-> m.dead]
           /\ \A k \in 1..Len(m.streams) : m.streams[k] \in KnownStream
<1>1. m.streams \in Seq(KnownStream)
  BY DEF MState
<1>2. Len(m.streams) \in Nat /\ \A k \in 1..Len(m.streams) : m.streams[k] \in KnownStream
  BY <1>1
<1> QED
  BY <1>1, <1>2 DEF MState

\* Bytes for a stream
LEMMA GiveFields ==
    ASSUME NEW m \in MState, NEW i \in PtyIdx, NEW bytes \in Seq(Byte)
    PROVE  /\ Give(m, i, bytes) \in MState
           /\ Give(m, i, bytes).got = [m.got EXCEPT ![i] = @ \o bytes]
           /\ Give(m, i, bytes).streams = m.streams /\ Give(m, i, bytes).acks = m.acks
           /\ Give(m, i, bytes).registry = m.registry /\ Give(m, i, bytes).dead = m.dead
           /\ bytes = <<>> => Give(m, i, bytes) = m
<1> DEFINE g == [m.got EXCEPT ![i] = @ \o bytes]
<1>1. Give(m, i, bytes) = [m EXCEPT !.got = g]
  BY Zenon DEF Give
<1>2. m.got[i] \in Seq(Byte) /\ m.got[i] \o bytes \in Seq(Byte)
  BY StateFields, ByteConcat
<1>3. g \in [PtyIdx -> Seq(Byte)]
  BY <1>2, StateFields
<1>4. bytes = <<>> => g = m.got
  <2> SUFFICES ASSUME bytes = <<>> PROVE g = m.got
    OBVIOUS
  <2>1. m.got[i] \o <<>> = m.got[i]
    BY <1>2
  <2> QED
    BY <2>1, StateFields
<1> HIDE DEF g
<1>5. Give(m, i, bytes) = [streams |-> m.streams, got |-> g, acks |-> m.acks,
                           registry |-> m.registry, dead |-> m.dead]
  BY <1>1, StateFields
<1>6. Give(m, i, bytes) \in MState
  BY <1>3, <1>5, StateFields DEF MState
<1> QED
  BY <1>4, <1>5, <1>6, StateFields DEF g

\* The rows of the table: the built-in streams, and those of m.
LEMMA Rows ==
    ASSUME NEW m \in MState, Agrees(m), DemuxInv
    PROVE  /\ \A i \in Registered : i < 3 => i \in 0..2 /\ tags[i].value = 0 /\ tags[i].name = <<i>>
           /\ \A i \in Registered : i >= 3 =>
                  /\ i - 2 \in 1..Len(m.streams)
                  /\ tags[i].value = m.streams[i - 2].id /\ tags[i].name = m.streams[i - 2].name
           /\ \A k \in 1..Len(m.streams) :
                  /\ k + 2 \in Registered /\ k + 2 \in PtyIdx
                  /\ tags[k + 2].value = m.streams[k].id /\ tags[k + 2].name = m.streams[k].name
           /\ 0 \in Registered /\ 1 \in Registered /\ 2 \in Registered
<1>1. /\ num_proc = 3 + Len(m.streams) /\ Len(m.streams) \in Nat /\ num_proc <= MaxPty /\ MaxPty \in Nat
      /\ \A k \in 1..Len(m.streams) : tags[3 + k - 1] = NewTag(m.streams[k])
      /\ \A i \in 0..2 : tags[i].name = <<i>>
      /\ \A i \in Registered : (tags[i].value = 0) <=> (i < 3)
  <2>1. \A i \in Registered : (tags[i].value = 0) <=> (i < 3)
    BY DEF DemuxInv, TableInv, TableShape, BuiltinCount
  <2>2. num_proc <= MaxPty /\ MaxPty \in Nat
    BY MaxPtyAssumption DEF DemuxInv, TypeOK, BuiltinCount
  <2> QED
    BY <2>1, <2>2, StateFields DEF Agrees, BuiltinCount
<1>2. \A k \in 1..Len(m.streams) : 3 + k - 1 = k + 2 /\ k + 2 \in 0..(num_proc - 1) /\ k + 2 \in PtyIdx
  BY <1>1 DEF PtyIdx
<1>3. \A k \in 1..Len(m.streams) :
         tags[k + 2].value = m.streams[k].id /\ tags[k + 2].name = m.streams[k].name
  <2> SUFFICES ASSUME NEW k \in 1..Len(m.streams)
               PROVE  tags[k + 2].value = m.streams[k].id /\ tags[k + 2].name = m.streams[k].name
    OBVIOUS
  <2>1. tags[k + 2] = NewTag(m.streams[k])
    BY <1>1, <1>2
  <2>2. tags[k + 2] = [name |-> m.streams[k].name, value |-> m.streams[k].id,
                       input |-> m.streams[k].input]
    BY <2>1, Zenon DEF NewTag
  <2> QED
    BY <2>2
<1>4. \A i \in Registered : i >= 3 => i - 2 \in 1..Len(m.streams) /\ (i - 2) + 2 = i
  BY <1>1 DEF Registered
<1>5. \A i \in Registered : i < 3 => i \in 0..2
  BY <1>1 DEF Registered
<1>6. \A i \in Registered : i >= 3 =>
         tags[i].value = m.streams[i - 2].id /\ tags[i].name = m.streams[i - 2].name
  BY <1>3, <1>4
<1>7. 0 \in Registered /\ 1 \in Registered /\ 2 \in Registered
  BY <1>1 DEF Registered
<1> QED
  BY <1>1, <1>2, <1>3, <1>4, <1>5, <1>6, <1>7 DEF Registered

\* A stream of m has its PTY.
LEMMA PtyIs ==
    ASSUME NEW m \in MState, Agrees(m), DemuxInv, NEW id \in IdsOf(m)
    PROVE  /\ PtyFor(m, id) \in Registered /\ PtyFor(m, id) \in PtyIdx /\ PtyFor(m, id) >= 3
           /\ tags[PtyFor(m, id)].value = id
           /\ \A i \in Registered : tags[i].value = id /\ i >= 3 => i = PtyFor(m, id)
<1> DEFINE c == CHOOSE k \in DOMAIN m.streams : m.streams[k].id = id
<1>1. DOMAIN m.streams = 1..Len(m.streams) /\ Len(m.streams) \in Nat
  BY StateFields
<1>2. \E k \in DOMAIN m.streams : m.streams[k].id = id
  BY DEF IdsOf
<1>3. c \in DOMAIN m.streams /\ m.streams[c].id = id
  BY <1>2
<1>4. PtyFor(m, id) = 3 - 1 + c
  BY DEF PtyFor, BuiltinCount
<1> HIDE DEF c
<1>5. PtyFor(m, id) = c + 2 /\ c \in 1..Len(m.streams) /\ c \in Nat
  BY <1>1, <1>3, <1>4
<1>6. c + 2 \in Registered /\ c + 2 \in PtyIdx /\ tags[c + 2].value = id /\ c + 2 >= 3
  BY <1>3, <1>5, Rows
<1>7. \A i \in Registered : tags[i].value = id /\ i >= 3 => i = c + 2
  <2>1. DistinctStreamIds
    BY DEF DemuxInv, TableInv
  <2> QED
    BY <1>6, <2>1 DEF DistinctStreamIds, BuiltinCount
<1> QED
  BY <1>5, <1>6, <1>7

\* The demuxer knows the streams of m and has the room that m has.
LEMMA KnownIs ==
    ASSUME NEW m \in MState, Agrees(m), DemuxInv
    PROVE  /\ \A id : Known(id) <=> id \in IdsOf(m) \cup {0}
           /\ \A n \in Nat : TableFull(n) <=> ~Room(m, n)
           /\ \A s : Fresh(s) <=> s.id \notin IdsOf(m) \cup {0} /\ s.name \notin NamesOf(m)
<1>0. DOMAIN m.streams = 1..Len(m.streams) /\ Len(m.streams) \in Nat
  BY StateFields
<1>r. \A i \in Registered : i \in Nat
  BY DEF Registered
<1>1. ASSUME NEW id PROVE Known(id) <=> id \in IdsOf(m) \cup {0}
  <2>1. ASSUME NEW i \in Registered, tags[i].value = id PROVE id \in IdsOf(m) \cup {0}
    <3>1. CASE i < 3
      BY <2>1, <3>1, Rows
    <3>2. CASE i >= 3
      BY <1>0, <2>1, <3>2, Rows DEF IdsOf
    <3> QED
      BY <1>r, <3>1, <3>2
  <2>2. ASSUME NEW k \in 1..Len(m.streams), m.streams[k].id = id PROVE Known(id)
    BY <2>2, Rows DEF Known
  <2>3. ASSUME id = 0 PROVE Known(id)
    <3>1. 0 \in Registered /\ tags[0].value = 0
      BY Rows
    <3> QED
      BY <2>3, <3>1 DEF Known
  <2> QED
    BY <1>0, <2>1, <2>2, <2>3 DEF Known, IdsOf
<1>2. ASSUME NEW n \in Nat PROVE TableFull(n) <=> ~Room(m, n)
  BY <1>0, MaxPtyAssumption DEF TableFull, Room, Agrees, BuiltinCount
<1>3. ASSUME NEW s PROVE Fresh(s) <=> s.id \notin IdsOf(m) \cup {0} /\ s.name \notin NamesOf(m)
  <2>1. (\E i \in Registered : tags[i].name = s.name) <=> s.name \in NamesOf(m)
    <3>1. ASSUME NEW i \in Registered, tags[i].name = s.name PROVE s.name \in NamesOf(m)
      <4>1. CASE i < 3
        <5>1. tags[i].name = <<i>> /\ i \in 0..2
          BY <4>1, Rows
        <5>2. i = 0 \/ i = 1 \/ i = 2
          BY <5>1
        <5> QED
          BY <3>1, <5>1, <5>2, Zenon DEF NamesOf
      <4>2. CASE i >= 3
        BY <1>0, <3>1, <4>2, Rows DEF NamesOf
      <4> QED
        BY <1>r, <4>1, <4>2
    <3>2. ASSUME NEW k \in 1..Len(m.streams), m.streams[k].name = s.name
          PROVE  \E i \in Registered : tags[i].name = s.name
      BY <3>2, Rows
    <3>3. s.name \in {<<0>>, <<1>>, <<2>>} => \E i \in Registered : tags[i].name = s.name
      <4>1. 0 \in Registered /\ 1 \in Registered /\ 2 \in Registered
            /\ tags[0].name = <<0>> /\ tags[1].name = <<1>> /\ tags[2].name = <<2>>
        BY Rows
      <4> QED
        BY <4>1, Zenon
    <3> QED
      BY <1>0, <3>1, <3>2, <3>3 DEF NamesOf
  <2>2. (\E i \in Registered : tags[i].value = s.id) <=> s.id \in IdsOf(m) \cup {0}
    BY <1>1 DEF Known
  <2> QED
    BY <2>1, <2>2, Zenon DEF Fresh
<1> QED
  BY <1>1, <1>2, <1>3

\* Records that are left when part of one has arrived
DataRec(id, e) == [kind |-> "data", id |-> id, payload |-> e]
PlainRec(e)    == [kind |-> "plain", payload |-> e]

\* They are records, and every frame and all unframed output is one.
LEMMA RestRecords ==
    /\ \A id \in ValidStreamId, e \in Seq(Byte) : DataRec(id, e) \in Record
    /\ \A e \in Seq(Byte \ {ESC}) : PlainRec(e) \in Record
    /\ \A f \in Record : f.kind = "data" => f = DataRec(f.id, f.payload)
    /\ \A f \in Record : f.kind = "plain" => f = PlainRec(f.payload)
    /\ \A f \in Record : f.kind = "data" => f \in DataRecord
BY DEF Record, DataRec, PlainRec, DataRecord

\* What a byte of the payload of an unknown stream comes to
Shown == [b \in Byte |-> IF b = ESC THEN <<>> ELSE <<b>>]

\* Unescaped takes one byte after the other.
LEMMA UnescapedFirst ==
    /\ Unescaped(<<>>) = <<>>
    /\ \A s \in Seq(Byte) :
           /\ Unescaped(s) \in Seq(Byte)
           /\ s # <<>> => /\ Head(s) = ESC => Unescaped(s) = Unescaped(Tail(s))
                          /\ Head(s) # ESC => Unescaped(s) = <<Head(s)>> \o Unescaped(Tail(s))
<1>1. Shown \in [Byte -> Seq(Byte)] /\ \A b \in Byte : Shown[b] = IF b = ESC THEN <<>> ELSE <<b>>
  <2>1. \A b \in Byte : <<b>> \in Seq(Byte)
    OBVIOUS
  <2>2. <<>> \in Seq(Byte)
    OBVIOUS
  <2>3. \A b \in Byte : Shown[b] = IF b = ESC THEN <<>> ELSE <<b>>
    BY Zenon DEF Shown
  <2>4. Shown = [b \in Byte |-> Shown[b]]
    BY <2>3, Zenon DEF Shown
  <2>5. \A b \in Byte : Shown[b] \in Seq(Byte)
    BY <2>1, <2>2, <2>3, Zenon
  <2> QED
    BY <2>3, <2>4, <2>5
<1>2. ASSUME NEW s \in Seq(Byte) PROVE Unescaped(s) = Spread(Shown, s)
  <2>1. \A k \in DOMAIN s : s[k] \in Byte
    OBVIOUS
  <2>2. [k \in DOMAIN s |-> Shown[s[k]]] = [k \in DOMAIN s |-> IF s[k] = ESC THEN <<>> ELSE <<s[k]>>]
    BY <1>1, <2>1, Zenon
  <2> QED
    BY <2>2, Zenon DEF Unescaped, Spread, PartsOf
<1>3. Unescaped(<<>>) = <<>>
  <2>1. <<>> \in Seq(Byte)
    OBVIOUS
  <2> QED
    BY <1>2, <2>1, SpreadEmpty, Zenon
<1>4. ASSUME NEW s \in Seq(Byte) PROVE Unescaped(s) \in Seq(Byte)
  <2>1. Spread(Shown, s) \in Seq(Byte)
    BY <1>1, SpreadType
  <2> QED
    BY <1>2, <2>1, Zenon
<1>5. ASSUME NEW s \in Seq(Byte), s # <<>>
      PROVE  /\ Head(s) = ESC => Unescaped(s) = Unescaped(Tail(s))
             /\ Head(s) # ESC => Unescaped(s) = <<Head(s)>> \o Unescaped(Tail(s))
  <2>1. Head(s) \in Byte /\ Tail(s) \in Seq(Byte)
    BY <1>5, HeadAndTail
  <2>2. Spread(Shown, s) = Shown[Head(s)] \o Spread(Shown, Tail(s))
    BY <1>1, <1>5, SpreadFirst
  <2>3. Unescaped(s) = Shown[Head(s)] \o Unescaped(Tail(s))
    BY <1>2, <2>1, <2>2, Zenon
  <2> DEFINE u == Unescaped(Tail(s))
  <2>4. u \in Seq(Byte)
    BY <1>4, <2>1
  <2> HIDE DEF u
  <2>5. <<>> \o u = u
    BY <2>4
  <2> QED
    BY <1>1, <2>1, <2>3, <2>5, Zenon DEF u
<1> QED
  BY <1>3, <1>4, <1>5

\* m with other output
WithGot(m, g) == [streams |-> m.streams, got |-> g, acks |-> m.acks,
                  registry |-> m.registry, dead |-> m.dead]

\* Giving changes the output alone.
LEMMA GiveIs ==
    ASSUME NEW m \in MState, NEW i \in PtyIdx, NEW bytes \in Seq(Byte)
    PROVE  /\ Give(m, i, bytes) = WithGot(m, [m.got EXCEPT ![i] = @ \o bytes])
           /\ Give(m, i, bytes) \in MState
           /\ bytes = <<>> => Give(m, i, bytes) = m
<1> DEFINE x == Give(m, i, bytes)
           g == [m.got EXCEPT ![i] = @ \o bytes]
<1>1. /\ x \in MState /\ x.got = g /\ x.streams = m.streams /\ x.acks = m.acks
      /\ x.registry = m.registry /\ x.dead = m.dead /\ (bytes = <<>> => x = m)
  BY GiveFields
<1> HIDE DEF x, g
<1>2. x = [streams |-> x.streams, got |-> x.got, acks |-> x.acks, registry |-> x.registry, dead |-> x.dead]
  BY <1>1, StateFields
<1>3. x = WithGot(m, g)
  BY <1>1, <1>2, Zenon DEF WithGot
<1> QED
  BY <1>1, <1>3, Zenon DEF x, g

\* The same as one fact
GivesMore(m, i, bytes) == Give(m, i, bytes) = WithGot(m, [m.got EXCEPT ![i] = @ \o bytes])

\* for the provers
LEMMA GiveMore ==
    ASSUME NEW m \in MState, NEW i \in PtyIdx, NEW bytes \in Seq(Byte)
    PROVE  GivesMore(m, i, bytes)
BY GiveIs, Zenon DEF GivesMore

\* Bytes given in two parts
GivesParts(m, i, a, b) == Give(Give(m, i, a), i, b) = Give(m, i, a \o b)

\* are given one after the other.
LEMMA GiveTwice ==
    ASSUME NEW m \in MState, NEW i \in PtyIdx, NEW a \in Seq(Byte), NEW b \in Seq(Byte)
    PROVE  GivesParts(m, i, a, b)
<1> SUFFICES Give(Give(m, i, a), i, b) = Give(m, i, a \o b)
  BY DEF GivesParts
<1> DEFINE g == m.got
           g1 == [g EXCEPT ![i] = @ \o a]
           g2 == [g1 EXCEPT ![i] = @ \o b]
           g3 == [g EXCEPT ![i] = @ \o (a \o b)]
<1>1. PICK x : x = Give(m, i, a)
  OBVIOUS
<1>2. x = WithGot(m, g1) /\ x \in MState
  BY <1>1, GiveIs, Zenon
<1>3. Give(x, i, b) = WithGot(x, [x.got EXCEPT ![i] = @ \o b])
  <2>1. GivesMore(x, i, b)
    BY <1>2, GiveMore, Zenon
  <2> QED
    BY <2>1, Zenon DEF GivesMore
<1>4. a \o b \in Seq(Byte)
  BY ByteConcat
<1>5. Give(m, i, a \o b) = WithGot(m, g3)
  <2>1. GivesMore(m, i, a \o b)
    BY <1>4, GiveMore, Zenon
  <2> QED
    BY <2>1, Zenon DEF GivesMore
<1>6. g \in [PtyIdx -> Seq(Byte)]
  BY StateFields
<1> HIDE DEF g, g1, g2, g3
<1>7. x.got = g1 /\ WithGot(x, g2) = WithGot(m, g2)
  BY <1>2 DEF WithGot
<1>8. g2 = g3
  <2>1. g[i] \in Seq(Byte)
    BY <1>6
  <2>2. (g[i] \o a) \o b = g[i] \o (a \o b)
    BY <2>1, ByteConcat, Zenon
  <2>3. DOMAIN g = PtyIdx
    BY <1>6
  <2>4. DOMAIN g1 = PtyIdx /\ g1[i] = g[i] \o a /\ \A j \in PtyIdx : j # i => g1[j] = g[j]
    BY <2>3, Zenon DEF g1
  <2>5. g2 = [j \in PtyIdx |-> IF j = i THEN g1[i] \o b ELSE g1[j]]
    BY <2>4, Zenon DEF g2
  <2>6. g3 = [j \in PtyIdx |-> IF j = i THEN g[i] \o (a \o b) ELSE g[j]]
    BY <2>3, Zenon DEF g3
  <2>7. \A j \in PtyIdx : (IF j = i THEN g1[i] \o b ELSE g1[j])
                              = (IF j = i THEN g[i] \o (a \o b) ELSE g[j])
    BY <2>2, <2>4, Zenon
  <2> QED
    BY <2>5, <2>6, <2>7, Zenon
<1> QED
  BY <1>1, <1>3, <1>5, <1>7, <1>8, Zenon DEF g2

\* Giving leaves the streams alone.
LEMMA GiveKeeps ==
    ASSUME NEW m \in MState, NEW i \in PtyIdx, NEW bytes \in Seq(Byte)
    PROVE  /\ Give(m, i, bytes) \in MState /\ Give(m, i, bytes).dead = m.dead
           /\ IdsOf(Give(m, i, bytes)) = IdsOf(m)
           /\ \A id : PtyFor(Give(m, i, bytes), id) = PtyFor(m, id)
<1>1. PICK x : x = Give(m, i, bytes)
  OBVIOUS
<1>2. x \in MState /\ x = WithGot(m, [m.got EXCEPT ![i] = @ \o bytes])
  BY <1>1, GiveIs, Zenon
<1>3. x.streams = m.streams /\ x.dead = m.dead
  BY <1>2 DEF WithGot
<1>4. IdsOf(x) = IdsOf(m) /\ \A id : PtyFor(x, id) = PtyFor(m, id)
  BY <1>3, Zenon DEF IdsOf, PtyFor
<1> QED
  BY <1>1, <1>2, <1>3, <1>4, Zenon

\* What the data of a known stream means
LEMMA MeaningKnown ==
    ASSUME NEW m \in MState, ~m.dead, NEW id \in IdsOf(m), NEW e
    PROVE  Meaning(m, DataRec(id, e)) = Give(m, PtyFor(m, id), e)
<1>1. DataRec(id, e).kind = "data" /\ DataRec(id, e).id = id /\ DataRec(id, e).payload = e
  BY DEF DataRec
<1>2. Meaning(m, DataRec(id, e)) = MeaningOfData(m, DataRec(id, e))
  BY <1>1 DEF Meaning
<1> QED
  BY <1>1, <1>2, Zenon DEF MeaningOfData

\* What the data of an unknown stream means
LEMMA MeaningUnknown ==
    ASSUME NEW m \in MState, ~m.dead, NEW id, id \notin IdsOf(m), NEW e
    PROVE  Meaning(m, DataRec(id, e)) = Give(m, PHYSICAL_UART_DEFAULT, Unescaped(e))
<1>1. DataRec(id, e).kind = "data" /\ DataRec(id, e).id = id /\ DataRec(id, e).payload = e
  BY DEF DataRec
<1>2. Meaning(m, DataRec(id, e)) = MeaningOfData(m, DataRec(id, e))
  BY <1>1 DEF Meaning
<1> QED
  BY <1>1, <1>2, Zenon DEF MeaningOfData

\* What unframed output means
LEMMA MeaningPlain ==
    ASSUME NEW m \in MState, ~m.dead, NEW e
    PROVE  Meaning(m, PlainRec(e)) = Give(m, PHYSICAL_UART_DEFAULT, e)
<1>1. PlainRec(e).kind = "plain" /\ PlainRec(e).payload = e
  BY DEF PlainRec
<1> QED
  BY <1>1 DEF Meaning

\* The PTY that gets the next byte of a frame with this ID
Target(m, id) == IF id \in IdsOf(m) THEN PtyFor(m, id) ELSE PHYSICAL_UART_DEFAULT

\* The PTY of unframed output is one.
LEMMA DefaultPty == PHYSICAL_UART_DEFAULT \in PtyIdx /\ PHYSICAL_UART_DEFAULT # RAW_CCPLEX
BY MaxPtyAssumption DEF PtyIdx, PHYSICAL_UART_DEFAULT, RAW_CCPLEX, BuiltinCount

\* A byte of a frame, given to its PTY, leaves the meaning of the rest.
LEMMA DataNext ==
    ASSUME NEW m \in MState, ~m.dead, NEW id, NEW e \in Seq(Byte), e # <<>>,
           Target(m, id) \in PtyIdx, id \in IdsOf(m) \/ Head(e) # ESC
    PROVE  Meaning(Give(m, Target(m, id), <<Head(e)>>), DataRec(id, Tail(e))) = Meaning(m, DataRec(id, e))
<1>1. PICK p : p = Target(m, id)
  OBVIOUS
<1>2. Head(e) \in Byte /\ Tail(e) \in Seq(Byte) /\ e = <<Head(e)>> \o Tail(e) /\ <<Head(e)>> \in Seq(Byte)
  BY HeadAndTail
<1>3. PICK x : x = Give(m, p, <<Head(e)>>)
  OBVIOUS
<1>p. p \in PtyIdx
  BY <1>1, Zenon
<1>4. /\ x \in MState /\ ~x.dead /\ IdsOf(x) = IdsOf(m)
      /\ PtyFor(x, id) = PtyFor(m, id)
  <2>1. /\ Give(m, p, <<Head(e)>>) \in MState /\ Give(m, p, <<Head(e)>>).dead = m.dead
        /\ IdsOf(Give(m, p, <<Head(e)>>)) = IdsOf(m)
        /\ \A j : PtyFor(Give(m, p, <<Head(e)>>), j) = PtyFor(m, j)
    BY <1>2, <1>p, GiveKeeps, Zenon
  <2> QED
    BY <1>3, <2>1, Zenon
<1>5. CASE id \in IdsOf(m)
  <2>1. p = PtyFor(m, id) /\ p \in PtyIdx
    BY <1>1, <1>5 DEF Target
  <2>2. Meaning(x, DataRec(id, Tail(e))) = Give(x, PtyFor(x, id), Tail(e))
    BY <1>4, <1>5, MeaningKnown, Zenon
  <2>3. Meaning(m, DataRec(id, e)) = Give(m, p, e)
    BY <1>5, <2>1, MeaningKnown, Zenon
  <2>4. Give(Give(m, p, <<Head(e)>>), p, Tail(e)) = Give(m, p, <<Head(e)>> \o Tail(e))
    <3>1. GivesParts(m, p, <<Head(e)>>, Tail(e))
      BY <1>2, <2>1, GiveTwice, Zenon
    <3> QED
      BY <3>1, Zenon DEF GivesParts
  <2> QED
    BY <1>1, <1>2, <1>3, <1>4, <2>1, <2>2, <2>3, <2>4, Zenon
<1>6. CASE id \notin IdsOf(m)
  <2> DEFINE u == Unescaped(Tail(e))
  <2>1. p = PHYSICAL_UART_DEFAULT /\ p \in PtyIdx
    BY <1>1, <1>6 DEF Target
  <2>2. Meaning(x, DataRec(id, Tail(e))) = Give(x, p, u)
    BY <1>4, <1>6, <2>1, MeaningUnknown, Zenon
  <2>3. Unescaped(e) = <<Head(e)>> \o u /\ u \in Seq(Byte)
    BY <1>2, <1>6, UnescapedFirst, Zenon
  <2>4. Meaning(m, DataRec(id, e)) = Give(m, p, <<Head(e)>> \o u)
    BY <1>6, <2>1, <2>3, MeaningUnknown, Zenon
  <2>5. Give(Give(m, p, <<Head(e)>>), p, u) = Give(m, p, <<Head(e)>> \o u)
    <3>1. GivesParts(m, p, <<Head(e)>>, u)
      BY <1>2, <2>1, <2>3, GiveTwice, Zenon
    <3> QED
      BY <3>1, Zenon DEF GivesParts
  <2> QED
    BY <1>1, <1>3, <2>2, <2>4, <2>5, Zenon
<1> QED
  BY <1>5, <1>6

\* An escape byte of an unknown stream means nothing.
LEMMA DataDropped ==
    ASSUME NEW m \in MState, ~m.dead, NEW id, NEW e \in Seq(Byte), e # <<>>,
           id \notin IdsOf(m), Head(e) = ESC
    PROVE  Meaning(m, DataRec(id, Tail(e))) = Meaning(m, DataRec(id, e))
<1>1. Unescaped(e) = Unescaped(Tail(e))
  BY UnescapedFirst, Zenon
<1> QED
  BY <1>1, MeaningUnknown, Zenon

\* A byte of unframed output, given to its PTY, leaves the meaning of the rest.
LEMMA PlainNext ==
    ASSUME NEW m \in MState, ~m.dead, NEW e \in Seq(Byte), e # <<>>
    PROVE  Meaning(Give(m, PHYSICAL_UART_DEFAULT, <<Head(e)>>), PlainRec(Tail(e))) = Meaning(m, PlainRec(e))
<1>1. PICK p : p = PHYSICAL_UART_DEFAULT
  OBVIOUS
<1>2. Head(e) \in Byte /\ Tail(e) \in Seq(Byte) /\ e = <<Head(e)>> \o Tail(e) /\ <<Head(e)>> \in Seq(Byte)
  BY HeadAndTail
<1>3. PICK x : x = Give(m, p, <<Head(e)>>)
  OBVIOUS
<1>p. p \in PtyIdx
  BY <1>1, DefaultPty
<1>4. x \in MState /\ ~x.dead
  BY <1>p, <1>2, <1>3, GiveKeeps, Zenon
<1>5. Meaning(x, PlainRec(Tail(e))) = Give(x, p, Tail(e)) /\ Meaning(m, PlainRec(e)) = Give(m, p, e)
  BY <1>1, <1>4, MeaningPlain, Zenon
<1>6. Give(Give(m, p, <<Head(e)>>), p, Tail(e)) = Give(m, p, <<Head(e)>> \o Tail(e))
  BY <1>p, <1>2, GiveTwice, Zenon DEF GivesParts
<1> QED
  BY <1>1, <1>2, <1>3, <1>5, <1>6, Zenon

\* Nothing means nothing.
LEMMA EmptyMeans ==
    ASSUME NEW m \in MState, ~m.dead
    PROVE  /\ Meaning(m, PlainRec(<<>>)) = m
           /\ \A id : Target(m, id) \in PtyIdx => Meaning(m, DataRec(id, <<>>)) = m
<1>1. <<>> \in Seq(Byte)
  OBVIOUS
<1>2. \A i \in PtyIdx : Give(m, i, <<>>) = m
  BY <1>1, GiveIs, Zenon
<1>3. Meaning(m, PlainRec(<<>>)) = m
  BY <1>2, DefaultPty, MeaningPlain, Zenon
<1>4. ASSUME NEW id, Target(m, id) \in PtyIdx PROVE Meaning(m, DataRec(id, <<>>)) = m
  <2>1. CASE id \in IdsOf(m)
    BY <1>2, <1>4, <2>1, MeaningKnown, Zenon DEF Target
  <2>2. CASE id \notin IdsOf(m)
    BY <1>2, <2>2, DefaultPty, MeaningUnknown, UnescapedFirst
  <2> QED
    BY <2>1, <2>2
<1> QED
  BY <1>3, <1>4

\* With the demuxer in agreement with m, the target is a PTY besides the mirror.
LEMMA TargetPty ==
    ASSUME NEW m \in MState, Agrees(m), DemuxInv, NEW id
    PROVE  Target(m, id) \in PtyIdx /\ Target(m, id) # RAW_CCPLEX
<1>1. CASE id \in IdsOf(m)
  <2>1. PtyFor(m, id) \in PtyIdx /\ PtyFor(m, id) >= 3
    BY <1>1, PtyIs
  <2>2. PtyFor(m, id) # RAW_CCPLEX
    BY <2>1 DEF RAW_CCPLEX
  <2> QED
    BY <1>1, <2>1, <2>2 DEF Target
<1>2. CASE id \notin IdsOf(m)
  BY <1>2, DefaultPty DEF Target
<1> QED
  BY <1>1, <1>2

\* The mirror beside, the output is what it was.
LEMMA OutputSame ==
    ASSUME DemuxInv, NEW ch \in Byte, NEW o \in {out, Mirrored(ch)}
    PROVE  o \in [PtyIdx -> Seq(Byte)] /\ \A i \in PtyIdx \ {RAW_CCPLEX} : o[i] = out[i]
<1>1. OutType
  BY DEF DemuxInv, TypeOK, OutType
<1> QED
  BY <1>1, MirrorElsewhere DEF OutType

\* A byte that gives the streams nothing
LEMMA AgreesSame ==
    ASSUME NEW m, Agrees(m), DemuxInv, NEW ch \in Byte, NEW o \in {out, Mirrored(ch)}, out' = o,
           UNCHANGED <<table, downlink_ack_count, virtioso_registry_json>>
    PROVE  Agrees(m)'
<1>1. \A i \in PtyIdx \ {RAW_CCPLEX} : o[i] = out[i]
  BY OutputSame
<1>2. tags' = tags /\ num_proc' = num_proc
  BY DEF table
<1> QED
  BY <1>1, <1>2 DEF Agrees

\* A byte that one stream is given
LEMMA AgreesGive ==
    ASSUME NEW m \in MState, Agrees(m), DemuxInv, NEW ch \in Byte, NEW o \in {out, Mirrored(ch)},
           NEW i \in PtyIdx, i # RAW_CCPLEX, out' = Put(o, i, ch),
           UNCHANGED <<table, downlink_ack_count, virtioso_registry_json>>
    PROVE  Agrees(Give(m, i, <<ch>>))' /\ Give(m, i, <<ch>>) \in MState
<1>1. PICK x : x = Give(m, i, <<ch>>)
  OBVIOUS
<1>2. <<ch>> \in Seq(Byte)
  OBVIOUS
<1>3. x \in MState /\ x = WithGot(m, [m.got EXCEPT ![i] = @ \o <<ch>>])
  BY <1>1, <1>2, GiveIs, Zenon
<1>4. /\ x.streams = m.streams /\ x.acks = m.acks /\ x.registry = m.registry /\ x.dead = m.dead
      /\ x.got = [m.got EXCEPT ![i] = @ \o <<ch>>]
  BY <1>3 DEF WithGot
<1>5. \A j \in PtyIdx \ {RAW_CCPLEX} : out'[j] = x.got[j]
  <2>1. o \in [PtyIdx -> Seq(Byte)] /\ \A j \in PtyIdx \ {RAW_CCPLEX} : o[j] = out[j]
    BY OutputSame
  <2>2. \A j \in PtyIdx \ {RAW_CCPLEX} : o[j] = m.got[j]
    BY <2>1 DEF Agrees
  <2>3. m.got \in [PtyIdx -> Seq(Byte)]
    BY StateFields
  <2>4. out'[i] = Append(o[i], ch) /\ \A j \in PtyIdx : j # i => out'[j] = o[j]
    BY <2>1 DEF Put
  <2>5. x.got[i] = m.got[i] \o <<ch>> /\ \A j \in PtyIdx : j # i => x.got[j] = m.got[j]
    BY <1>4, <2>3
  <2>6. Append(o[i], ch) = o[i] \o <<ch>>
    <3>1. o[i] \in Seq(Byte)
      BY <2>1
    <3> QED
      BY <3>1
  <2>7. out'[i] = x.got[i]
    BY <2>2, <2>4, <2>5, <2>6
  <2> QED
    BY <2>2, <2>4, <2>5, <2>7
<1>6. tags' = tags /\ num_proc' = num_proc
  BY DEF table
<1>7. Agrees(x)'
  <2>1. /\ ~x.dead /\ num_proc' = BuiltinCount + Len(x.streams)
        /\ \A k \in 1..Len(x.streams) : tags'[BuiltinCount + k - 1] = NewTag(x.streams[k])
        /\ \A j \in 0..(BuiltinCount - 1) : tags'[j].name = <<j>>
        /\ downlink_ack_count' = x.acks /\ (x.registry <=> virtioso_registry_json' # <<>>)
    BY <1>4, <1>6 DEF Agrees
  <2> QED
    BY <1>5, <2>1 DEF Agrees
<1> QED
  BY <1>1, <1>3, <1>7, Zenon

-----------------------------------------------------------------------------
(* Where the parser is in a record, when it still gets w.  g is what the   *)
(* rest of the record is to mean.                                          *)

\* In front of it, or in unframed output, of which any byte may be the last
AtRecord(g, w) == ParserRest /\ w = EncodeFrame(g)

\* After its first byte
AtEscape(g, w) ==
    /\ control_state = "IDLE" /\ in_escape /\ cur_rx_stream = NoStream
    /\ g.kind # "plain" /\ w \in Seq(Byte) /\ EncodeFrame(g) = <<ESC>> \o w

\* In a data frame: between bytes of the payload, in an escape, at the end
Selected(m, id) == cur_rx_stream = IF id \in IdsOf(m) THEN PtyFor(m, id) ELSE NoStream

InFrame(m, g, w) ==
    /\ g.kind = "data" /\ control_state = "IDLE" /\ Selected(m, g.id)
    /\ \/ ~in_escape /\ w = After(g.payload)
       \/ /\ in_escape /\ g.payload # <<>> /\ Head(g.payload) = ESC
          /\ w = <<ESC>> \o After(Tail(g.payload))
       \/ in_escape /\ g.payload = <<>> /\ w = <<DEFAULT>>

\* In a control record: before its type, its length bytes, and in its text
TypeOf(g) ==
    CASE g.kind = "registry"     -> STREAM_REGISTRY
      [] g.kind = "connected"    -> STREAM_CONNECTED
      [] g.kind = "disconnected" -> STREAM_DISCONNECTED
TextOf(g) == IF g.kind = "registry" THEN g.text ELSE <<g.id>> \o g.name

HasText(g) == g.kind \in {"registry", "connected", "disconnected"}

Reads(g, forRegistry, forOthers) ==
    IF g.kind = "registry" THEN control_state = forRegistry
    ELSE control_state = forOthers /\ pending_ctrl_type = TypeOf(g)

AtAck(g, w)  == g.kind = "ack" /\ control_state = "CMD" /\ w = <<DOWNLINK_ACK>>
AtType(g, w) == HasText(g) /\ control_state = "CMD" /\ w = FromType(TypeOf(g), TextOf(g))
AtHi(g, w)   ==
    HasText(g) /\ Reads(g, "REGISTRY_LEN_HI", "ANNOUNCE_LEN_HI") /\ w = FromHi(TextOf(g))
AtLo(g, w)   ==
    /\ HasText(g) /\ Reads(g, "REGISTRY_LEN_LO", "ANNOUNCE_LEN_LO") /\ w = FromLo(TextOf(g))
    /\ control_registry_len = (Len(TextOf(g)) \div (ByteMax + 1)) * (ByteMax + 1)
InText(g, w) ==
    /\ HasText(g) /\ Reads(g, "REGISTRY_JSON", "ANNOUNCE_PAYLOAD")
    /\ w # <<>> /\ TextOf(g) = control_registry_json \o w
    /\ control_registry_len = Len(TextOf(g))

InRecord(g, w) ==
    /\ ~in_escape /\ cur_rx_stream = NoStream
    /\ AtAck(g, w) \/ AtType(g, w) \/ AtHi(g, w) \/ AtLo(g, w) \/ InText(g, w)

\* The demuxer has done what m says; with w it will have done what g means besides.
Decodes(m, g, w) ==
    /\ m \in MState /\ g \in Record /\ w \in Seq(Byte) /\ Agrees(m)
    /\ AtRecord(g, w) \/ AtEscape(g, w) \/ InFrame(m, g, w) \/ InRecord(g, w)

\* A byte takes the parser on towards what g means, unless that ends the thread.
Goes(m, g, w) ==
    IF alive' THEN \E m2, g2 : Decodes(m2, g2, w)' /\ Meaning(m2, g2) = Meaning(m, g)
    ELSE Meaning(m, g).dead

\* At rest after a record
LEMMA Rests ==
    ASSUME NEW m, NEW g, NEW m2 \in MState, Agrees(m2)', Meaning(m, g) = m2, alive',
           ParserRest', NEW w, w = <<>>
    PROVE  Goes(m, g, w)
<1>1. <<>> \in Seq(Byte \ {ESC}) /\ <<>> \in Seq(Byte)
  OBVIOUS
<1>2. PICK r : r = PlainRec(<<>>)
  OBVIOUS
<1>3. r \in Record
  BY <1>1, <1>2, RestRecords
<1>4. EncodeFrame(r) = <<>>
  BY <1>2 DEF EncodeFrame, PlainRec
<1>5. AtRecord(r, w)'
  BY <1>4 DEF AtRecord
<1>6. ~m2.dead
  BY DEF Agrees
<1>7. Meaning(m2, r) = m2
  BY <1>2, <1>6, EmptyMeans
<1>8. Decodes(m2, r, w)'
  BY <1>1, <1>3, <1>5 DEF Decodes
<1> QED
  BY <1>7, <1>8 DEF Goes

\* How the bytes of a record begin
LEMMA RecordBegins ==
    ASSUME NEW g \in Record
    PROVE  /\ g.kind = "plain" => EncodeFrame(g) = g.payload
           /\ g.kind = "data" => EncodeFrame(g) = <<ESC>> \o (<<g.id>> \o After(g.payload))
                                 /\ <<g.id>> \o After(g.payload) \in Seq(Byte)
           /\ g.kind = "ack" => EncodeFrame(g) = <<ESC>> \o <<CONTROL, DOWNLINK_ACK>>
                                /\ <<CONTROL, DOWNLINK_ACK>> \in Seq(Byte)
           /\ HasText(g) => /\ EncodeFrame(g) = <<ESC>> \o FromControl(TypeOf(g), TextOf(g))
                            /\ FromControl(TypeOf(g), TextOf(g)) \in Seq(Byte)
<1>1. g.kind = "plain" => EncodeFrame(g) = g.payload
  BY DEF EncodeFrame
<1>2. ASSUME g.kind = "data" PROVE EncodeFrame(g) = <<ESC>> \o (<<g.id>> \o After(g.payload))
                                   /\ <<g.id>> \o After(g.payload) \in Seq(Byte)
  <2>1. g \in DataRecord
    BY <1>2, RestRecords
  <2> QED
    BY <2>1, FrameBytes
<1>3. g.kind = "ack" => EncodeFrame(g) = <<ESC>> \o <<CONTROL, DOWNLINK_ACK>>
                        /\ <<CONTROL, DOWNLINK_ACK>> \in Seq(Byte)
  <2>1. g.kind = "ack" => EncodeFrame(g) = <<ESC, CONTROL, DOWNLINK_ACK>>
    BY DEF EncodeFrame, EncodeAck
  <2>2. <<CONTROL, DOWNLINK_ACK>> \in Seq(Byte) /\ ESC \in Byte
    BY ProtocolBytes
  <2>3. <<ESC, CONTROL, DOWNLINK_ACK>> = <<ESC>> \o <<CONTROL, DOWNLINK_ACK>>
    OBVIOUS
  <2> QED
    BY <2>1, <2>2, <2>3
<1>4. ASSUME HasText(g)
      PROVE  /\ EncodeFrame(g) = <<ESC>> \o FromControl(TypeOf(g), TextOf(g))
             /\ FromControl(TypeOf(g), TextOf(g)) \in Seq(Byte)
  <2> DEFINE t == TypeOf(g)
             x == TextOf(g)
  <2>1. t \in Byte
    BY <1>4, ProtocolBytes DEF HasText, TypeOf
  <2>2. x \in Seq(Byte) /\ Len(x) < (ByteMax + 1) * (ByteMax + 1) /\ EncodeFrame(g) = ControlBytes(t, x)
    <3>1. CASE g.kind = "registry"
      <4>1. t = STREAM_REGISTRY /\ x = g.text
        BY <3>1 DEF TypeOf, TextOf
      <4> QED
        BY <3>1, <4>1, ControlRecords, Zenon
    <3>2. CASE g.kind # "registry"
      <4>1. x = <<g.id>> \o g.name /\ g.kind \in {"connected", "disconnected"}
            /\ t = IF g.kind = "connected" THEN STREAM_CONNECTED ELSE STREAM_DISCONNECTED
        BY <1>4, <3>2 DEF HasText, TypeOf, TextOf
      <4>2. x \in Seq(Byte) /\ Len(x) \in 1..((ByteMax + 1) * (ByteMax + 1) - 1)
            /\ EncodeFrame(g) = ControlBytes(t, x)
        BY <4>1, ControlRecords, Zenon
      <4> HIDE DEF x
      <4>3. (ByteMax + 1) * (ByteMax + 1) \in Nat
        BY ProtocolBytes
      <4>4. Len(x) < (ByteMax + 1) * (ByteMax + 1)
        <5> DEFINE q == (ByteMax + 1) * (ByteMax + 1)
        <5>1. q \in Nat /\ Len(x) \in 1..(q - 1)
          BY <4>2, <4>3
        <5> HIDE DEF q
        <5>2. Len(x) < q
          BY <5>1
        <5> QED
          BY <5>2 DEF q
      <4> QED
        BY <4>2, <4>4
    <3> QED
      BY <3>1, <3>2
  <2> HIDE DEF t, x
  <2>3. ControlBytes(t, x) = <<ESC>> \o FromControl(t, x) /\ FromControl(t, x) \in Seq(Byte)
    BY <2>1, <2>2, RecordBytes, Zenon
  <2> QED
    BY <2>2, <2>3, Zenon DEF t, x
<1> QED
  BY <1>1, <1>2, <1>3, <1>4

\* The rest of a record with text, and its length
LEMMA TextFacts ==
    ASSUME NEW g \in Record, HasText(g)
    PROVE  /\ TypeOf(g) \in Byte /\ TextOf(g) \in Seq(Byte)
           /\ Len(TextOf(g)) \in Nat /\ Len(TextOf(g)) < (ByteMax + 1) * (ByteMax + 1)
           /\ g.kind # "registry" => Len(TextOf(g)) # 0
           /\ FromLo(TextOf(g)) \in Seq(Byte) /\ FromHi(TextOf(g)) \in Seq(Byte)
           /\ FromType(TypeOf(g), TextOf(g)) \in Seq(Byte)
<1> DEFINE t == TypeOf(g)
           x == TextOf(g)
<1>1. t \in Byte
  BY ProtocolBytes DEF HasText, TypeOf
<1>2. x \in Seq(Byte) /\ Len(x) < (ByteMax + 1) * (ByteMax + 1) /\ (g.kind # "registry" => Len(x) # 0)
  <2>1. CASE g.kind = "registry"
    <3>1. x = g.text
      BY <2>1 DEF TextOf
    <3> QED
      BY <2>1, <3>1, ControlRecords, Zenon
  <2>2. CASE g.kind # "registry"
    <3>1. x = <<g.id>> \o g.name /\ g.kind \in {"connected", "disconnected"}
      BY <2>2 DEF HasText, TextOf
    <3>2. x \in Seq(Byte) /\ Len(x) \in 1..((ByteMax + 1) * (ByteMax + 1) - 1)
      BY <3>1, ControlRecords, Zenon
    <3> DEFINE q == (ByteMax + 1) * (ByteMax + 1)
    <3> HIDE DEF x
    <3>3. q \in Nat /\ Len(x) \in 1..(q - 1)
      BY <3>2, ProtocolBytes
    <3> HIDE DEF q
    <3>4. Len(x) < q /\ Len(x) # 0
      BY <3>3
    <3> QED
      BY <3>2, <3>4 DEF q
  <2> QED
    BY <2>1, <2>2
<1> HIDE DEF t, x
<1>3. Len(x) \in Nat
  BY <1>2
<1>4. FromLo(x) \in Seq(Byte) /\ FromHi(x) \in Seq(Byte) /\ FromType(t, x) \in Seq(Byte)
  BY <1>1, <1>2, RecordBytes, Zenon
<1> QED
  BY <1>1, <1>2, <1>3, <1>4, Zenon DEF t, x

\* A step of the same record
LEMMA SameRecord ==
    ASSUME NEW m, NEW g, NEW w, Decodes(m, g, w)', alive'
    PROVE  Goes(m, g, w)
BY DEF Goes

\* Unframed output
LEMMA PlainByte ==
    ASSUME DemuxInv, NEW m \in MState, NEW g \in Record, g.kind = "plain", NEW w \in Seq(Byte), w # <<>>,
           Agrees(m), AtRecord(g, w),
           NEW o \in {out, Mirrored(Head(w))}, FeedVirtiosoByte(Head(w), o), alive'
    PROVE  Goes(m, g, Tail(w))
<1>1. w = g.payload /\ g.payload \in Seq(Byte \ {ESC}) /\ ParserRest
  BY RecordBegins, RecordFields DEF AtRecord
<1>2. Head(w) \in Byte \ {ESC} /\ Tail(w) \in Seq(Byte \ {ESC}) /\ Tail(w) \in Seq(Byte)
  BY <1>1, HeadAndTail
<1>3. Payload(Head(w), o)
  BY <1>1, <1>2, FramingBranch DEF ParserRest
<1>4. PICK p : p = PHYSICAL_UART_DEFAULT
  OBVIOUS
<1>5. FlushStream(o, p, Head(w)) /\ UNCHANGED <<parser, control, table, downlink_ack_count, virtioso_registry_json>>
  <2>1. cur_rx_stream < 0
    BY <1>1 DEF ParserRest, NoStream
  <2> QED
    BY <1>3, <1>4, <2>1 DEF Payload
<1>6. out' = Put(o, p, Head(w))
  BY <1>5 DEF FlushStream
<1>7. PICK x : x = Give(m, p, <<Head(w)>>)
  OBVIOUS
<1>8. x \in MState /\ Agrees(x)'
  <2>1. p \in PtyIdx /\ p # RAW_CCPLEX
    BY <1>4, DefaultPty
  <2>2. UNCHANGED <<table, downlink_ack_count, virtioso_registry_json>>
    BY <1>5
  <2>3. Agrees(Give(m, p, <<Head(w)>>))' /\ Give(m, p, <<Head(w)>>) \in MState
    BY <1>2, <1>6, <2>1, <2>2, AgreesGive, Zenon
  <2> QED
    BY <1>7, <2>3
<1>9. PICK r : r = PlainRec(Tail(w))
  OBVIOUS
<1>10. r \in Record /\ EncodeFrame(r) = Tail(w)
  <2>1. r \in Record /\ r.kind = "plain" /\ r.payload = Tail(w)
    BY <1>2, <1>9, RestRecords DEF PlainRec
  <2> QED
    BY <2>1, RecordBegins
<1>11. AtRecord(r, Tail(w))'
  BY <1>1, <1>5, <1>10 DEF AtRecord, ParserRest, parser, control
<1>12. Decodes(x, r, Tail(w))'
  BY <1>2, <1>8, <1>10, <1>11 DEF Decodes
<1>13. Meaning(x, r) = Meaning(m, g)
  <2>1. g = PlainRec(w)
    BY <1>1, RestRecords
  <2>2. ~m.dead
    BY DEF Agrees
  <2> QED
    BY <1>4, <1>7, <1>9, <2>1, <2>2, PlainNext, Zenon
<1> QED
  BY <1>12, <1>13 DEF Goes

\* The first byte of any other record
LEMMA EscapeByte ==
    ASSUME DemuxInv, NEW m \in MState, NEW g \in Record, g.kind # "plain", NEW w \in Seq(Byte), w # <<>>,
           Agrees(m), AtRecord(g, w),
           NEW o \in {out, Mirrored(Head(w))}, FeedVirtiosoByte(Head(w), o), alive'
    PROVE  Goes(m, g, Tail(w))
<1>1. PICK v \in Seq(Byte) : EncodeFrame(g) = <<ESC>> \o v
  <2>1. g.kind = "data" \/ g.kind = "ack" \/ HasText(g)
    BY RecordFields DEF HasText
  <2> QED
    BY <2>1, RecordBegins, Zenon
<1>2. ESC \in Byte /\ Head(w) = ESC /\ Tail(w) = v
  <2>1. ESC \in Byte
    BY ProtocolBytes
  <2>2. w = <<ESC>> \o v
    BY <1>1 DEF AtRecord
  <2> QED
    BY <2>1, <2>2, FirstOf, Zenon
<1>3. EscapeStart(Head(w), o)
  BY <1>2, FramingBranch DEF AtRecord, ParserRest
<1>4. AtEscape(g, Tail(w))'
  BY <1>1, <1>2, <1>3 DEF AtEscape, EscapeStart, AtRecord, ParserRest, control
<1>5. Agrees(m)'
  BY <1>2, <1>3, AgreesSame DEF EscapeStart
<1>6. Decodes(m, g, Tail(w))'
  BY <1>2, <1>4, <1>5 DEF Decodes
<1> QED
  BY <1>6, SameRecord

\* The stream that framing selects
LEMMA SelectsStream ==
    ASSUME DemuxInv, NEW m \in MState, Agrees(m), NEW id \in ValidStreamId, NEW o, EscapeStream(id, o)
    PROVE  Selected(m, id)'
<1>1. id # 0
  BY ProtocolBytes DEF DEFAULT
<1>2. CASE id \in IdsOf(m)
  <2>1. Known(id)
    BY <1>2, KnownIs
  <2>2. PICK i \in Registered : IsPtyOf(i, id) /\ cur_rx_stream' = i
    BY <2>1 DEF EscapeStream
  <2>3. tags[i].value = id
    BY <2>2 DEF IsPtyOf
  <2>4. i >= 3
    <3>1. \A j \in Registered : j < 3 => tags[j].value = 0
      BY Rows
    <3>2. i \in Nat
      BY DEF Registered
    <3> QED
      BY <1>1, <2>3, <3>1, <3>2
  <2>5. i = PtyFor(m, id)
    BY <1>2, <2>3, <2>4, PtyIs
  <2> QED
    BY <1>2, <2>2, <2>5 DEF Selected
<1>3. CASE id \notin IdsOf(m)
  <2>1. ~Known(id)
    BY <1>1, <1>3, KnownIs
  <2>2. cur_rx_stream' = NoStream
    <3>1. \A i \in Registered : ~IsPtyOf(i, id)
      BY <2>1 DEF Known, IsPtyOf
    <3> QED
      BY <3>1 DEF EscapeStream
  <2> QED
    BY <1>3, <2>2 DEF Selected
<1> QED
  BY <1>2, <1>3

\* The second byte of a record
LEMMA SecondByte ==
    ASSUME DemuxInv, NEW m \in MState, NEW g \in Record, NEW w \in Seq(Byte), w # <<>>,
           Agrees(m), AtEscape(g, w),
           NEW o \in {out, Mirrored(Head(w))}, FeedVirtiosoByte(Head(w), o), alive'
    PROVE  Goes(m, g, Tail(w))
<1>0. ESC \in Byte /\ CONTROL \in Byte /\ DOWNLINK_ACK \in Byte /\ CONTROL # DEFAULT /\ CONTROL # ESC
  BY ProtocolBytes
<1>w. PICK f : f = EncodeFrame(g)
  OBVIOUS
<1>e. Tail(f) = w
  BY <1>0, <1>w, FirstOf DEF AtEscape
<1>t. Head(w) \in Byte /\ Tail(w) \in Seq(Byte)
  BY HeadAndTail
<1>1. CASE g.kind = "data"
  <2> DEFINE a == After(g.payload)
  <2>1. g.id \in ValidStreamId /\ g.id \in Byte /\ g.id \notin {DEFAULT, ESC, CONTROL} /\ a \in Seq(Byte)
    <3>1. g \in DataRecord
      BY <1>1, RestRecords
    <3> QED
      BY <3>1, FrameBytes, AfterType
  <2>2. f = <<ESC>> \o (<<g.id>> \o a) /\ <<g.id>> \o a \in Seq(Byte)
    BY <1>1, <1>w, RecordBegins, Zenon
  <2> HIDE DEF a
  <2>3. w = <<g.id>> \o a
    <3>1. PICK v : v = <<g.id>> \o a
      OBVIOUS
    <3>2. v \in Seq(Byte) /\ f = <<ESC>> \o v
      BY <2>2, <3>1
    <3>3. Tail(f) = v
      BY <1>0, <3>2, FirstOf, Zenon
    <3> QED
      BY <1>e, <3>1, <3>3
  <2>4. Head(w) = g.id /\ Tail(w) = a
    BY <2>1, <2>3, FirstOf
  <2>5. EscapeStream(g.id, o)
    BY <2>1, <2>4, FramingBranch DEF AtEscape
  <2>6. Selected(m, g.id)'
    BY <2>1, <2>5, SelectsStream
  <2>7. InFrame(m, g, Tail(w))'
    BY <1>1, <2>4, <2>5, <2>6 DEF InFrame, EscapeStream, control, a
  <2>8. Agrees(m)'
    <3>1. out' = o /\ UNCHANGED <<table, downlink_ack_count, virtioso_registry_json>>
      BY <2>5 DEF EscapeStream
    <3> QED
      BY <1>t, <3>1, AgreesSame
  <2>9. Decodes(m, g, Tail(w))'
    BY <1>t, <2>7, <2>8 DEF Decodes
  <2> QED
    BY <2>9, SameRecord
<1>2. CASE g.kind = "ack" \/ HasText(g)
  <2>0. PICK v : v = IF g.kind = "ack" THEN <<CONTROL, DOWNLINK_ACK>>
                     ELSE FromControl(TypeOf(g), TextOf(g))
    OBVIOUS
  <2>1. w = v
    <3>1. f = <<ESC>> \o v /\ v \in Seq(Byte)
      BY <1>2, <1>w, <2>0, RecordBegins, Zenon
    <3>2. Tail(f) = v
      BY <1>0, <3>1, FirstOf, Zenon
    <3> QED
      BY <1>e, <3>2
  <2>2. /\ Head(w) = CONTROL
        /\ Tail(w) = IF g.kind = "ack" THEN <<DOWNLINK_ACK>> ELSE FromType(TypeOf(g), TextOf(g))
    <3>1. CASE g.kind = "ack"
      <4>1. w = <<CONTROL, DOWNLINK_ACK>>
        BY <2>0, <2>1, <3>1
      <4> QED
        BY <3>1, <4>1
    <3>2. CASE g.kind # "ack"
      <4>1. PICK u : u = FromType(TypeOf(g), TextOf(g))
        OBVIOUS
      <4>2. w = <<CONTROL>> \o u
        BY <2>0, <2>1, <3>2, <4>1 DEF FromControl
      <4>3. u \in Seq(Byte)
        BY <1>2, <3>2, <4>1, TextFacts
      <4>4. Head(w) = CONTROL /\ Tail(w) = u
        BY <1>0, <4>2, <4>3, FirstOf, Zenon
      <4> QED
        BY <3>2, <4>1, <4>4
    <3> QED
      BY <3>1, <3>2
  <2>3. EscapeControl(CONTROL, o)
    BY <1>0, <2>2, FramingBranch DEF AtEscape
  <2>4. InRecord(g, Tail(w))'
    <3>1. ~in_escape' /\ cur_rx_stream' = NoStream /\ control_state' = "CMD"
      BY <2>3 DEF EscapeControl, AtEscape
    <3>2. AtAck(g, Tail(w))' \/ AtType(g, Tail(w))'
      BY <1>2, <2>2, <3>1 DEF AtAck, AtType, HasText
    <3> QED
      BY <3>1, <3>2 DEF InRecord
  <2>5. Agrees(m)'
    <3>1. out' = o /\ UNCHANGED <<table, downlink_ack_count, virtioso_registry_json>>
      BY <2>3 DEF EscapeControl
    <3> QED
      BY <1>t, <3>1, AgreesSame
  <2>6. Decodes(m, g, Tail(w))'
    BY <1>t, <2>4, <2>5 DEF Decodes
  <2> QED
    BY <2>6, SameRecord
<1> QED
  BY <1>1, <1>2, RecordFields DEF AtEscape, HasText

\* What is left of a frame, by the first byte of what is left of its payload
LEMMA AfterLeft ==
    ASSUME NEW e \in Seq(Byte)
    PROVE  /\ e = <<>> => After(e) = <<ESC>> \o <<DEFAULT>>
           /\ e # <<>> => /\ Head(e) \in Byte /\ Tail(e) \in Seq(Byte) /\ After(Tail(e)) \in Seq(Byte)
                          /\ Head(e) = ESC => After(e) = <<ESC>> \o (<<ESC>> \o After(Tail(e)))
                          /\ Head(e) # ESC => After(e) = <<Head(e)>> \o After(Tail(e))
BY DataLeft, Zenon DEF After

\* A byte of payload is given to the stream of the frame.
LEMMA PayloadGiven ==
    ASSUME DemuxInv, NEW m \in MState, NEW g \in Record, g.kind = "data", Agrees(m), Selected(m, g.id),
           g.payload # <<>>, g.id \in IdsOf(m) \/ Head(g.payload) # ESC,
           NEW o \in {out, Mirrored(Head(g.payload))}, out' = Put(o, Target(m, g.id), Head(g.payload)),
           alive', ~in_escape', control_state' = "IDLE", cur_rx_stream' = cur_rx_stream,
           UNCHANGED <<table, downlink_ack_count, virtioso_registry_json>>
    PROVE  Goes(m, g, After(Tail(g.payload)))
<1>1. PICK p : p = Target(m, g.id)
  OBVIOUS
<1>2. p \in PtyIdx /\ p # RAW_CCPLEX
  BY <1>1, TargetPty
<1>3. PICK e : e = g.payload
  OBVIOUS
<1>4. /\ e \in Seq(Byte) /\ e # <<>> /\ Head(e) \in Byte /\ Tail(e) \in Seq(Byte)
      /\ g.id \in ValidStreamId /\ g = DataRec(g.id, e)
  <2>1. e \in Seq(Byte) /\ e # <<>> /\ g.id \in ValidStreamId /\ g = DataRec(g.id, e)
    BY <1>3, RecordFields, RestRecords
  <2> QED
    BY <2>1, HeadAndTail
<1>5. PICK x : x = Give(m, p, <<Head(e)>>)
  OBVIOUS
<1>6. x \in MState /\ Agrees(x)'
  <2>1. o \in {out, Mirrored(Head(e))} /\ out' = Put(o, p, Head(e))
    BY <1>1, <1>3
  <2>2. Agrees(Give(m, p, <<Head(e)>>))' /\ Give(m, p, <<Head(e)>>) \in MState
    BY <1>2, <1>4, <2>1, AgreesGive, Zenon
  <2> QED
    BY <1>5, <2>2
<1>7. PICK r : r = DataRec(g.id, Tail(e))
  OBVIOUS
<1>8. r \in Record /\ r.kind = "data" /\ r.id = g.id /\ r.payload = Tail(e)
  <2>1. r \in Record
    BY <1>4, <1>7, RestRecords
  <2> QED
    BY <1>7, <2>1 DEF DataRec
<1>9. Selected(x, g.id)'
  <2>1. <<Head(e)>> \in Seq(Byte)
    BY <1>4
  <2>2. /\ IdsOf(Give(m, p, <<Head(e)>>)) = IdsOf(m)
        /\ \A j : PtyFor(Give(m, p, <<Head(e)>>), j) = PtyFor(m, j)
    BY <1>2, <2>1, GiveKeeps, Zenon
  <2>3. IdsOf(x) = IdsOf(m) /\ PtyFor(x, g.id) = PtyFor(m, g.id)
    BY <1>5, <2>2, Zenon
  <2> QED
    BY <2>3 DEF Selected
<1>10. InFrame(x, r, After(Tail(e)))'
  BY <1>8, <1>9 DEF InFrame
<1>11. Decodes(x, r, After(Tail(e)))'
  BY <1>4, <1>6, <1>8, <1>10, AfterType DEF Decodes
<1>12. Meaning(x, r) = Meaning(m, g)
  <2>1. ~m.dead
    BY DEF Agrees
  <2>2. Target(m, g.id) \in PtyIdx
    BY <1>1, <1>2
  <2>3. g.id \in IdsOf(m) \/ Head(e) # ESC
    BY <1>3
  <2>4. Meaning(Give(m, Target(m, g.id), <<Head(e)>>), DataRec(g.id, Tail(e))) = Meaning(m, DataRec(g.id, e))
    BY <1>4, <2>1, <2>2, <2>3, DataNext
  <2> QED
    BY <1>1, <1>4, <1>5, <1>7, <2>4, Zenon
<1> QED
  BY <1>3, <1>11, <1>12 DEF Goes

\* The stream of the frame and its PTY
LEMMA SelectedIs ==
    ASSUME DemuxInv, NEW m \in MState, Agrees(m), NEW id, Selected(m, id)
    PROVE  /\ id \in IdsOf(m) => cur_rx_stream >= 0 /\ Target(m, id) = cur_rx_stream
           /\ id \notin IdsOf(m) => cur_rx_stream < 0 /\ Target(m, id) = PHYSICAL_UART_DEFAULT
<1>1. CASE id \in IdsOf(m)
  <2>1. cur_rx_stream = PtyFor(m, id) /\ Target(m, id) = PtyFor(m, id)
    BY <1>1 DEF Selected, Target
  <2>2. PtyFor(m, id) >= 3 /\ PtyFor(m, id) \in PtyIdx
    BY <1>1, PtyIs
  <2>3. cur_rx_stream >= 0
    BY <2>1, <2>2, MaxPtyAssumption DEF PtyIdx
  <2> QED
    BY <1>1, <2>1, <2>3
<1>2. CASE id \notin IdsOf(m)
  BY <1>2 DEF Selected, Target, NoStream
<1> QED
  BY <1>1, <1>2

\* Between bytes of the payload
LEMMA FrameByte ==
    ASSUME DemuxInv, NEW m \in MState, NEW g \in Record, NEW w \in Seq(Byte), w # <<>>,
           Agrees(m), InFrame(m, g, w), ~in_escape,
           NEW o \in {out, Mirrored(Head(w))}, FeedVirtiosoByte(Head(w), o), alive'
    PROVE  Goes(m, g, Tail(w))
<1>1. PICK e : e = g.payload
  OBVIOUS
<1>2. /\ e \in Seq(Byte) /\ g.kind = "data" /\ w = After(e) /\ Selected(m, g.id)
      /\ control_state = "IDLE"
  BY <1>1, RecordFields DEF InFrame
<1>0. ESC \in Byte /\ DEFAULT \in Byte
  BY ProtocolBytes
<1>3. CASE e = <<>> \/ Head(e) = ESC
  <2>1. PICK v : v = IF e = <<>> THEN <<DEFAULT>> ELSE <<ESC>> \o After(Tail(e))
    OBVIOUS
  <2>2. v \in Seq(Byte) /\ w = <<ESC>> \o v
    <3>1. CASE e = <<>>
      <4>1. v = <<DEFAULT>> /\ w = <<ESC>> \o <<DEFAULT>>
        BY <1>2, <2>1, <3>1, AfterLeft
      <4> QED
        BY <1>0, <4>1
    <3>2. CASE e # <<>>
      <4>1. v = <<ESC>> \o After(Tail(e)) /\ After(Tail(e)) \in Seq(Byte)
            /\ w = <<ESC>> \o (<<ESC>> \o After(Tail(e)))
        BY <1>2, <1>3, <2>1, <3>2, AfterLeft, Zenon
      <4>2. v \in Seq(Byte)
        BY <1>0, <4>1, OneInTurn, Zenon
      <4> QED
        BY <4>1, <4>2
    <3> QED
      BY <3>1, <3>2
  <2>3. Head(w) = ESC /\ Tail(w) = v
    BY <1>0, <2>2, FirstOf, Zenon
  <2>4. EscapeStart(ESC, o)
    BY <1>2, <2>3, FramingBranch
  <2>5. /\ in_escape' /\ cur_rx_stream' = cur_rx_stream /\ control_state' = "IDLE" /\ out' = o
        /\ UNCHANGED <<table, downlink_ack_count, virtioso_registry_json>>
    BY <1>2, <2>4 DEF EscapeStart, control
  <2>6. Agrees(m)'
    BY <1>0, <2>3, <2>5, AgreesSame
  <2>7. InFrame(m, g, v)'
    <3>1. Selected(m, g.id)'
      BY <1>2, <2>5 DEF Selected
    <3> QED
      BY <1>1, <1>2, <1>3, <2>1, <2>5, <3>1 DEF InFrame
  <2>8. Decodes(m, g, Tail(w))'
    BY <2>2, <2>3, <2>6, <2>7 DEF Decodes
  <2> QED
    BY <2>8, SameRecord
<1>4. CASE e # <<>> /\ Head(e) # ESC
  <2>1. /\ Head(e) \in Byte /\ After(Tail(e)) \in Seq(Byte)
        /\ w = <<Head(e)>> \o After(Tail(e))
    BY <1>2, <1>4, AfterLeft, Zenon
  <2>2. Head(w) = Head(e) /\ Tail(w) = After(Tail(e))
    BY <2>1, FirstOf, Zenon
  <2>3. Payload(Head(e), o)
    BY <1>2, <1>4, <2>2, FramingBranch
  <2>4. FlushStream(o, Target(m, g.id), Head(e))
    <3>1. Target(m, g.id) = IF cur_rx_stream < 0 THEN PHYSICAL_UART_DEFAULT ELSE cur_rx_stream
      <4>1. cur_rx_stream >= 0 => ~(cur_rx_stream < 0)
        BY DEF DemuxInv, TypeOK, PtyIdx
      <4> QED
        BY <1>2, <4>1, SelectedIs
    <3> QED
      BY <2>3, <3>1 DEF Payload
  <2>5. out' = Put(o, Target(m, g.id), Head(e))
    BY <2>4 DEF FlushStream
  <2>6. /\ ~in_escape' /\ control_state' = "IDLE" /\ cur_rx_stream' = cur_rx_stream
        /\ UNCHANGED <<table, downlink_ack_count, virtioso_registry_json>>
    BY <1>2, <2>3 DEF Payload, parser, control
  <2> QED
    BY <1>1, <1>2, <1>4, <2>2, <2>5, <2>6, PayloadGiven
<1> QED
  BY <1>3, <1>4

\* A literal escape byte, and the end of the frame
LEMMA FrameEscape ==
    ASSUME DemuxInv, NEW m \in MState, NEW g \in Record, NEW w \in Seq(Byte), w # <<>>,
           Agrees(m), InFrame(m, g, w), in_escape,
           NEW o \in {out, Mirrored(Head(w))}, FeedVirtiosoByte(Head(w), o), alive'
    PROVE  Goes(m, g, Tail(w))
<1>1. PICK e : e = g.payload
  OBVIOUS
<1>2. /\ e \in Seq(Byte) /\ g.kind = "data" /\ Selected(m, g.id)
      /\ control_state = "IDLE" /\ g.id \in ValidStreamId /\ g = DataRec(g.id, e)
  BY <1>1, RecordFields, RestRecords DEF InFrame
<1>0. ESC \in Byte /\ DEFAULT \in Byte /\ ESC # DEFAULT
  BY ProtocolBytes
<1>m. ~m.dead
  BY DEF Agrees
<1>3. CASE e = <<>>
  <2>1. w = <<DEFAULT>>
    BY <1>1, <1>3 DEF InFrame
  <2>2. Head(w) = DEFAULT /\ Tail(w) = <<>>
    BY <2>1
  <2>3. EscapeDefault(DEFAULT, o)
    BY <1>2, <2>2, FramingBranch
  <2>4. /\ ParserRest' /\ out' = o
        /\ UNCHANGED <<table, downlink_ack_count, virtioso_registry_json>>
    BY <1>2, <2>3 DEF EscapeDefault, control, ParserRest
  <2>5. Agrees(m)'
    BY <1>0, <2>2, <2>4, AgreesSame
  <2>6. Target(m, g.id) \in PtyIdx
    BY TargetPty
  <2>7. Meaning(m, DataRec(g.id, <<>>)) = m
    BY <1>m, <2>6, EmptyMeans, Zenon
  <2>8. Meaning(m, g) = m
    BY <1>2, <1>3, <2>7
  <2> QED
    BY <2>2, <2>4, <2>5, <2>8, Rests
<1>4. CASE e # <<>>
  <2>1. Head(e) = ESC /\ w = <<ESC>> \o After(Tail(e)) /\ After(Tail(e)) \in Seq(Byte) /\ Tail(e) \in Seq(Byte)
    <3>1. Head(e) = ESC /\ w = <<ESC>> \o After(Tail(e))
      BY <1>1, <1>4 DEF InFrame
    <3> QED
      BY <1>2, <1>4, <3>1, AfterLeft
  <2>2. Head(w) = ESC /\ Tail(w) = After(Tail(e))
    BY <1>0, <2>1, FirstOf, Zenon
  <2>3. EscapeEscape(ESC, o)
    BY <1>0, <1>2, <2>2, FramingBranch
  <2>4. /\ ~in_escape' /\ control_state' = "IDLE" /\ cur_rx_stream' = cur_rx_stream
        /\ UNCHANGED <<table, downlink_ack_count, virtioso_registry_json>>
    BY <1>2, <2>3 DEF EscapeEscape, control
  <2>c. cur_rx_stream >= 0 <=> ~(cur_rx_stream < 0)
    BY DEF DemuxInv, TypeOK, PtyIdx
  <2>5. CASE g.id \in IdsOf(m)
    <3>1. FlushStream(o, Target(m, g.id), ESC)
      BY <1>2, <2>3, <2>5, <2>c, SelectedIs DEF EscapeEscape
    <3>2. out' = Put(o, Target(m, g.id), Head(e))
      BY <2>1, <3>1 DEF FlushStream
    <3> QED
      BY <1>1, <1>2, <1>4, <2>1, <2>2, <2>4, <2>5, <3>2, PayloadGiven
  <2>6. CASE g.id \notin IdsOf(m)
    <3>1. out' = o
      BY <1>2, <2>3, <2>6, <2>c, SelectedIs DEF EscapeEscape
    <3>2. Agrees(m)'
      BY <1>0, <2>2, <2>4, <3>1, AgreesSame
    <3>3. PICK r : r = DataRec(g.id, Tail(e))
      OBVIOUS
    <3>4. r \in Record /\ r.kind = "data" /\ r.id = g.id /\ r.payload = Tail(e)
      <4>1. r \in Record
        BY <1>2, <2>1, <3>3, RestRecords
      <4> QED
        BY <3>3, <4>1 DEF DataRec
    <3>5. Selected(m, g.id)'
      BY <1>2, <2>4 DEF Selected
    <3>6. InFrame(m, r, Tail(w))'
      BY <2>2, <2>4, <3>4, <3>5 DEF InFrame
    <3>7. Decodes(m, r, Tail(w))'
      BY <2>1, <2>2, <3>2, <3>4, <3>6 DEF Decodes
    <3>8. Meaning(m, r) = Meaning(m, g)
      <4>1. Meaning(m, DataRec(g.id, Tail(e))) = Meaning(m, DataRec(g.id, e))
        BY <1>2, <1>4, <1>m, <2>1, <2>6, DataDropped
      <4> QED
        BY <1>2, <3>3, <4>1, Zenon
    <3> QED
      BY <3>7, <3>8 DEF Goes
  <2> QED
    BY <2>5, <2>6
<1> QED
  BY <1>3, <1>4

\* The byte of an acknowledgement
LEMMA AckByte ==
    ASSUME DemuxInv, NEW m \in MState, NEW g \in Record, NEW w \in Seq(Byte),
           Agrees(m), InRecord(g, w), AtAck(g, w),
           NEW o \in {out, Mirrored(Head(w))}, FeedVirtiosoByte(Head(w), o), alive'
    PROVE  Goes(m, g, Tail(w))
<1>1. Head(w) = DOWNLINK_ACK /\ Tail(w) = <<>> /\ DOWNLINK_ACK \in Byte
  <2>1. w = <<DOWNLINK_ACK>>
    BY DEF AtAck
  <2> QED
    BY <2>1, ProtocolBytes
<1>2. ControlCommand(DOWNLINK_ACK, o)
  BY <1>1, RecordBranch DEF AtAck
<1>3. /\ downlink_ack_count' = downlink_ack_count + 1 /\ control_state' = "IDLE" /\ out' = o
      /\ UNCHANGED <<parser, table, virtioso_registry_json>>
  BY <1>2 DEF ControlCommand, DOWNLINK_ACK, STREAM_REGISTRY, STREAM_CONNECTED, STREAM_DISCONNECTED
<1>4. PICK x : x = [m EXCEPT !.acks = @ + 1]
  OBVIOUS
<1>5. x = [streams |-> m.streams, got |-> m.got, acks |-> m.acks + 1, registry |-> m.registry, dead |-> m.dead]
  <2>1. m = [streams |-> m.streams, got |-> m.got, acks |-> m.acks, registry |-> m.registry, dead |-> m.dead]
    BY StateFields
  <2>2. PICK s, t, a, r, d : s = m.streams /\ t = m.got /\ a = m.acks /\ r = m.registry /\ d = m.dead
    OBVIOUS
  <2>3. m = [streams |-> s, got |-> t, acks |-> a, registry |-> r, dead |-> d]
    BY <2>1, <2>2, Zenon
  <2>4. x = [streams |-> s, got |-> t, acks |-> a + 1, registry |-> r, dead |-> d]
    BY <1>4, <2>3
  <2> QED
    BY <2>2, <2>4, Zenon
<1>6. x \in MState
  BY <1>5, StateFields DEF MState
<1>7. /\ x.streams = m.streams /\ x.got = m.got /\ x.acks = m.acks + 1 /\ x.registry = m.registry
      /\ x.dead = m.dead
  BY <1>5
<1>8. Agrees(x)'
  <2>1. \A i \in PtyIdx \ {RAW_CCPLEX} : o[i] = out[i]
    BY <1>1, OutputSame
  <2>2. tags' = tags /\ num_proc' = num_proc
    BY <1>3 DEF table
  <2> QED
    BY <1>3, <1>7, <2>1, <2>2 DEF Agrees
<1>9. Meaning(m, g) = x
  <2>1. ~m.dead /\ g.kind = "ack"
    BY DEF Agrees, AtAck
  <2> QED
    BY <1>4, <2>1 DEF Meaning
<1>10. ParserRest'
  BY <1>3 DEF ParserRest, parser, InRecord
<1> QED
  BY <1>1, <1>6, <1>8, <1>9, <1>10, Rests

\* The type of a record with text
LEMMA TypeByte ==
    ASSUME DemuxInv, NEW m \in MState, NEW g \in Record, NEW w \in Seq(Byte),
           Agrees(m), InRecord(g, w), AtType(g, w),
           NEW o \in {out, Mirrored(Head(w))}, FeedVirtiosoByte(Head(w), o), alive'
    PROVE  Goes(m, g, Tail(w))
<1>1. PICK t, v : t = TypeOf(g) /\ v = FromHi(TextOf(g))
  OBVIOUS
<1>2. t \in Byte /\ v \in Seq(Byte) /\ w = <<t>> \o v
  BY <1>1, TextFacts DEF AtType, FromType
<1>3. Head(w) = t /\ Tail(w) = v
  BY <1>2, FirstOf, Zenon
<1>4. ControlCommand(t, o)
  BY <1>3, RecordBranch DEF AtType
<1>5. /\ g.kind = "registry" => t = STREAM_REGISTRY
      /\ g.kind # "registry" => t \in {STREAM_CONNECTED, STREAM_DISCONNECTED}
  BY <1>1 DEF AtType, HasText, TypeOf
<1>6. STREAM_REGISTRY # DOWNLINK_ACK
  BY DEF STREAM_REGISTRY, DOWNLINK_ACK
<1>7. /\ out' = o /\ UNCHANGED <<parser, table, virtioso_registry_json, downlink_ack_count>>
      /\ g.kind = "registry" => control_state' = "REGISTRY_LEN_HI"
      /\ g.kind # "registry" => control_state' = "ANNOUNCE_LEN_HI" /\ pending_ctrl_type' = t
  BY <1>4, <1>5, <1>6, ProtocolBytes DEF ControlCommand
<1>8. Agrees(m)'
  BY <1>2, <1>3, <1>7, AgreesSame
<1>9. AtHi(g, v)'
  BY <1>1, <1>7 DEF AtHi, Reads, AtType
<1>10. InRecord(g, v)'
  BY <1>7, <1>9 DEF InRecord, parser
<1>11. Decodes(m, g, v)'
  BY <1>2, <1>8, <1>10 DEF Decodes
<1> QED
  BY <1>3, <1>11, SameRecord

\* The first byte of the length
LEMMA HiByte ==
    ASSUME DemuxInv, NEW m \in MState, NEW g \in Record, NEW w \in Seq(Byte),
           Agrees(m), InRecord(g, w), AtHi(g, w),
           NEW o \in {out, Mirrored(Head(w))}, FeedVirtiosoByte(Head(w), o), alive'
    PROVE  Goes(m, g, Tail(w))
<1>1. PICK n, v : n = Len(TextOf(g)) \div (ByteMax + 1) /\ v = FromLo(TextOf(g))
  OBVIOUS
<1>2. n \in Byte /\ v \in Seq(Byte) /\ w = <<n>> \o v
  <2>1. Len(TextOf(g)) \in Nat /\ Len(TextOf(g)) < (ByteMax + 1) * (ByteMax + 1) /\ v \in Seq(Byte)
    BY <1>1, TextFacts DEF AtHi
  <2>2. n \in Byte
    BY <1>1, <2>1, TwoDigits
  <2> QED
    BY <1>1, <2>1, <2>2 DEF AtHi, FromHi
<1>3. Head(w) = n /\ Tail(w) = v
  BY <1>2, FirstOf, Zenon
<1>4. ControlLenHi(n, o)
  BY <1>3, RecordBranch DEF AtHi, Reads
<1>5. /\ out' = o /\ UNCHANGED <<parser, table, virtioso_registry_json, downlink_ack_count>>
      /\ control_registry_len' = n * (ByteMax + 1)
      /\ Reads(g, "REGISTRY_LEN_LO", "ANNOUNCE_LEN_LO")'
  BY <1>4 DEF ControlLenHi, AtHi, Reads
<1>6. Agrees(m)'
  BY <1>2, <1>3, <1>5, AgreesSame
<1>7. AtLo(g, v)'
  BY <1>1, <1>5 DEF AtLo, AtHi
<1>8. InRecord(g, v)'
  BY <1>5, <1>7 DEF InRecord, parser
<1>9. Decodes(m, g, v)'
  BY <1>2, <1>6, <1>8 DEF Decodes
<1> QED
  BY <1>3, <1>9, SameRecord

\* The second byte of the length: the text follows, unless it is empty
LEMMA LoByte ==
    ASSUME DemuxInv, NEW m \in MState, NEW g \in Record, NEW w \in Seq(Byte),
           Agrees(m), InRecord(g, w), AtLo(g, w),
           NEW o \in {out, Mirrored(Head(w))}, FeedVirtiosoByte(Head(w), o), Clean(Head(w), o), alive'
    PROVE  Goes(m, g, Tail(w))
<1>1. PICK n, v : n = Len(TextOf(g)) % (ByteMax + 1) /\ v = TextOf(g)
  OBVIOUS
<1>2. /\ n \in Byte /\ v \in Seq(Byte) /\ w = <<n>> \o v
      /\ control_registry_len + n = Len(v)
      /\ g.kind # "registry" => Len(v) # 0
  <2>1. Len(v) \in Nat /\ Len(v) < (ByteMax + 1) * (ByteMax + 1) /\ v \in Seq(Byte)
        /\ (g.kind # "registry" => Len(v) # 0)
    BY <1>1, TextFacts DEF AtLo
  <2>2. n \in Byte /\ (Len(v) \div (ByteMax + 1)) * (ByteMax + 1) + n = Len(v)
    BY <1>1, <2>1, TwoDigits
  <2> QED
    BY <1>1, <2>1, <2>2 DEF AtLo, FromLo
<1>3. Head(w) = n /\ Tail(w) = v
  BY <1>2, FirstOf, Zenon
<1>4. ControlLenLo(n, o) /\ control_state \in {"REGISTRY_LEN_LO", "ANNOUNCE_LEN_LO"}
  BY <1>3, RecordBranch DEF AtLo, Reads
<1>5. /\ out' = o /\ UNCHANGED <<parser, table, virtioso_registry_json, downlink_ack_count, pending_ctrl_type>>
      /\ control_registry_len' = Len(v) /\ control_registry_json' = <<>>
      /\ control_state' = "IDLE" <=> Len(v) = 0
  BY <1>2, <1>3, <1>4 DEF ControlLenLo, Clean
<1>6. Agrees(m)'
  BY <1>2, <1>3, <1>5, AgreesSame
<1>7. CASE Len(v) = 0
  <2>1. g.kind = "registry" /\ v = <<>> /\ g.text = <<>>
    BY <1>1, <1>2, <1>7 DEF TextOf
  <2>2. Meaning(m, g) = m
    <3>1. ~m.dead
      BY DEF Agrees
    <3>2. MeaningOfRegistry(m, g) = m
      BY <2>1, Zenon DEF MeaningOfRegistry
    <3> QED
      BY <2>1, <3>1, <3>2 DEF Meaning
  <2>3. ParserRest'
    BY <1>5, <1>7 DEF ParserRest, InRecord, parser
  <2> QED
    BY <1>3, <1>6, <2>1, <2>2, <2>3, Rests
<1>8. CASE Len(v) # 0
  <2>1. v # <<>>
    BY <1>8
  <2>2. Reads(g, "REGISTRY_JSON", "ANNOUNCE_PAYLOAD")'
    BY <1>4, <1>5, <1>8 DEF ControlLenLo, Reads, AtLo
  <2>3. <<>> \o v = v
    BY <1>2
  <2>4. InText(g, v)'
    BY <1>1, <1>5, <2>1, <2>2, <2>3 DEF InText, AtLo
  <2>5. InRecord(g, v)'
    BY <1>5, <2>4 DEF InRecord, parser
  <2>6. Decodes(m, g, v)'
    BY <1>2, <1>6, <2>5 DEF Decodes
  <2> QED
    BY <1>3, <2>6, SameRecord
<1> QED
  BY <1>7, <1>8

\* The text, before its last byte and at it
LEMMA TextByte ==
    ASSUME DemuxInv, NEW m \in MState, NEW g \in Record, NEW w \in Seq(Byte),
           Agrees(m), InRecord(g, w), InText(g, w),
           NEW o \in {out, Mirrored(Head(w))}, FeedVirtiosoByte(Head(w), o)
    PROVE  /\ Tail(w) = <<>> => /\ Append(control_registry_json, Head(w)) = TextOf(g)
                                /\ g.kind = "registry" => ControlRegistry(Head(w), o)
                                /\ g.kind # "registry" => ControlAnnounce(Head(w), o)
           /\ Tail(w) # <<>> => ControlPayload(Head(w), o) /\ (alive' => Goes(m, g, Tail(w)))
<1>1. PICK j, h, v, x : j = control_registry_json /\ h = Head(w) /\ v = Tail(w) /\ x = TextOf(g)
  OBVIOUS
<1>2. /\ j \in Seq(Byte) /\ h \in Byte /\ v \in Seq(Byte) /\ w = <<h>> \o v /\ x \in Seq(Byte)
      /\ x = j \o w /\ w # <<>>
  <2>1. j \in Seq(Byte) /\ x = j \o w /\ w # <<>>
    BY <1>1 DEF DemuxInv, TypeOK, InText
  <2>2. h \in Byte /\ v \in Seq(Byte) /\ w = <<h>> \o v
    BY <1>1, <2>1, HeadAndTail, Zenon
  <2>3. x \in Seq(Byte)
    BY <1>1, TextFacts DEF InText
  <2> QED
    BY <2>1, <2>2, <2>3
<1>3. Len(x) = Len(j) + 1 + Len(v) /\ Append(j, h) \in Seq(Byte) /\ x = Append(j, h) \o v
      /\ Len(j) \in Nat /\ Len(v) \in Nat /\ (v = <<>> <=> Len(v) = 0)
  <2>1. Append(j, h) = j \o <<h>> /\ Append(j, h) \in Seq(Byte) /\ <<h>> \in Seq(Byte)
    BY <1>2
  <2>2. (j \o <<h>>) \o v = j \o (<<h>> \o v)
    <3>1. j \in Seq(Byte) /\ v \in Seq(Byte) /\ <<h>> \in Seq(Byte)
      BY <1>2, <2>1
    <3> QED
      BY <3>1, ByteConcat
  <2>3. Len(j) \in Nat /\ Len(v) \in Nat /\ (v = <<>> <=> Len(v) = 0)
    BY <1>2
  <2>4. Len(Append(j, h)) = Len(j) + 1
    BY <1>2
  <2>5. x = Append(j, h) \o v
    BY <1>2, <2>1, <2>2, Zenon
  <2>6. Len(x) = Len(Append(j, h)) + Len(v)
    BY <1>2, <2>1, <2>5, LenOfConcat, Zenon
  <2> QED
    BY <2>1, <2>3, <2>4, <2>5, <2>6
<1>4. LastByte <=> v = <<>>
  <2>1. control_registry_len = Len(x)
    BY <1>1 DEF InText
  <2>2. LastByte <=> Len(j) + 1 >= Len(x)
    BY <1>1, <2>1 DEF LastByte
  <2> QED
    BY <1>3, <2>2
<1>5. /\ v = <<>> /\ g.kind = "registry" => ControlRegistry(h, o)
      /\ v = <<>> /\ g.kind # "registry" => ControlAnnounce(h, o)
      /\ v # <<>> => ControlPayload(h, o)
  <2>1. /\ g.kind = "registry" => control_state = "REGISTRY_JSON"
        /\ g.kind # "registry" => control_state = "ANNOUNCE_PAYLOAD"
    BY DEF InText, Reads
  <2>2. /\ control_state = "REGISTRY_JSON" => ControlPayload(h, o) \/ ControlRegistry(h, o)
        /\ control_state = "ANNOUNCE_PAYLOAD" => ControlPayload(h, o) \/ ControlAnnounce(h, o)
    BY <1>1, RecordBranch
  <2>3. /\ ControlPayload(h, o) => ~LastByte
        /\ ControlRegistry(h, o) => LastByte
        /\ ControlAnnounce(h, o) => LastByte
    BY DEF ControlPayload, ControlRegistry, ControlAnnounce
  <2> QED
    BY <1>4, <2>1, <2>2, <2>3
<1>6. v = <<>> => Append(j, h) = x
  <2>1. Append(j, h) \o <<>> = Append(j, h)
    BY <1>3
  <2> QED
    BY <1>3, <2>1
<1>7. ASSUME v # <<>>, alive' PROVE Goes(m, g, v)
  <2>1. ControlPayload(h, o)
    BY <1>5, <1>7
  <2>2. /\ control_registry_json' = Append(j, h) /\ out' = o
        /\ UNCHANGED <<parser, control_state, control_registry_len, pending_ctrl_type,
                       table, virtioso_registry_json, downlink_ack_count>>
    BY <1>1, <2>1 DEF ControlPayload
  <2>3. Agrees(m)'
    BY <1>1, <1>2, <2>2, AgreesSame
  <2>4. InText(g, v)'
    <3>1. Reads(g, "REGISTRY_JSON", "ANNOUNCE_PAYLOAD")'
      BY <2>2 DEF Reads, InText
    <3> QED
      BY <1>1, <1>3, <1>7, <2>2, <3>1 DEF InText
  <2>5. InRecord(g, v)'
    BY <2>2, <2>4 DEF InRecord, parser
  <2>6. Decodes(m, g, v)'
    BY <1>2, <2>3, <2>5 DEF Decodes
  <2> QED
    BY <1>7, <2>6, SameRecord
<1> QED
  BY <1>1, <1>5, <1>6, <1>7

\* m with more streams, and perhaps the registry
WithMore(m, new, r) ==
    [streams |-> m.streams \o new, got |-> m.got, acks |-> m.acks, registry |-> r, dead |-> m.dead]

\* New rows behind those of m are the streams that are added to m.
LEMMA AgreesMore ==
    ASSUME DemuxInv, NEW m \in MState, Agrees(m), NEW new \in Seq(KnownStream), NEW r \in BOOLEAN,
           num_proc' = num_proc + Len(new), num_proc + Len(new) <= MaxPty,
           \A i \in 0..(num_proc - 1) : tags'[i] = tags[i],
           \A k \in 1..Len(new) : tags'[num_proc + k - 1] = NewTag(new[k]),
           NEW ch \in Byte, NEW o \in {out, Mirrored(ch)}, out' = o,
           r <=> virtioso_registry_json' # <<>>, UNCHANGED downlink_ack_count
    PROVE  WithMore(m, new, r) \in MState /\ Agrees(WithMore(m, new, r))'
<1>1. PICK s, x : s = m.streams /\ x = WithMore(m, new, r)
  OBVIOUS
<1>2. s \in Seq(KnownStream) /\ Len(s) \in Nat /\ Len(new) \in Nat /\ MaxPty \in Nat
      /\ num_proc = 3 + Len(s)
  BY <1>1, StateFields, MaxPtyAssumption DEF Agrees, BuiltinCount
<1>3. /\ s \o new \in Seq(KnownStream) /\ Len(s \o new) = Len(s) + Len(new)
      /\ \A k \in 1..Len(s) : (s \o new)[k] = s[k]
      /\ \A k \in (Len(s) + 1)..(Len(s) + Len(new)) : (s \o new)[k] = new[k - Len(s)]
  BY <1>2
<1>4. PICK all : all = s \o new
  OBVIOUS
<1>5. x = [streams |-> all, got |-> m.got, acks |-> m.acks, registry |-> r, dead |-> m.dead]
  BY <1>1, <1>4 DEF WithMore
<1>6. x \in MState
  <2>1. Len(all) <= MaxPty - 3 /\ all \in Seq(KnownStream)
    BY <1>2, <1>3, <1>4
  <2> QED
    BY <1>5, <2>1, StateFields DEF MState, BuiltinCount
<1>7. x.streams = all /\ x.got = m.got /\ x.acks = m.acks /\ x.registry = r /\ x.dead = m.dead
  BY <1>5
<1>8. ASSUME NEW k \in 1..Len(all) PROVE tags'[3 + k - 1] = NewTag(all[k])
  <2>1. Len(all) = Len(s) + Len(new) /\ k \in Nat
    BY <1>3, <1>4
  <2>2. CASE k <= Len(s)
    <3>1. k \in 1..Len(s) /\ 3 + k - 1 \in 0..(num_proc - 1)
      BY <1>2, <2>2
    <3>2. all[k] = s[k]
      BY <1>3, <1>4, <3>1
    <3>3. tags[3 + k - 1] = NewTag(s[k])
      BY <1>1, <3>1 DEF Agrees, BuiltinCount
    <3> QED
      BY <3>1, <3>2, <3>3
  <2>3. CASE k > Len(s)
    <3>1. PICK j : j = k - Len(s)
      OBVIOUS
    <3>2. j \in 1..Len(new) /\ 3 + k - 1 = num_proc + j - 1 /\ k \in (Len(s) + 1)..(Len(s) + Len(new))
      BY <1>2, <2>1, <2>3, <3>1
    <3>3. all[k] = new[j]
      BY <1>3, <1>4, <3>1, <3>2
    <3> QED
      BY <3>2, <3>3
  <2> QED
    BY <1>2, <2>1, <2>2, <2>3
<1>9. Agrees(x)'
  <2>1. \A i \in PtyIdx \ {RAW_CCPLEX} : out'[i] = x.got[i]
    BY <1>7, OutputSame DEF Agrees
  <2>2. \A i \in 0..2 : tags'[i].name = <<i>>
    <3>1. \A i \in 0..(3 - 1) : tags[i].name = <<i>>
      BY Zenon DEF Agrees, BuiltinCount
    <3>2. \A i \in 0..2 : i \in 0..(num_proc - 1)
      BY <1>2
    <3>3. 0..2 = 0..(3 - 1)
      OBVIOUS
    <3> QED
      BY <3>1, <3>2, <3>3, Zenon
  <2>3. num_proc' = 3 + Len(x.streams)
    BY <1>2, <1>3, <1>4, <1>7
  <2>4. ~x.dead /\ downlink_ack_count' = x.acks /\ (x.registry <=> virtioso_registry_json' # <<>>)
    BY <1>7 DEF Agrees
  <2>5. \A k \in 1..Len(x.streams) : tags'[3 + k - 1] = NewTag(x.streams[k])
    BY <1>7, <1>8
  <2> QED
    BY <2>1, <2>2, <2>3, <2>4, <2>5 DEF Agrees, BuiltinCount
<1> QED
  BY <1>1, <1>6, <1>9

\* The announcement of a stream that is new to m
LEMMA AnnouncedNew ==
    ASSUME DemuxInv, NEW m \in MState, Agrees(m), NEW id \in Byte, NEW name \in Seq(Byte),
           ~Known(id), ~TableFull(1),
           tags' = [tags EXCEPT ![num_proc] = [name |-> name, value |-> id, input |-> FALSE]],
           num_proc' = num_proc + 1,
           NEW ch \in Byte, NEW o \in {out, Mirrored(ch)}, out' = o,
           UNCHANGED <<virtioso_registry_json, downlink_ack_count>>
    PROVE  LET s == [id |-> id, name |-> name, input |-> FALSE]
           IN  WithMore(m, <<s>>, m.registry) \in MState /\ Agrees(WithMore(m, <<s>>, m.registry))'
<1>1. PICK s : s = [id |-> id, name |-> name, input |-> FALSE]
  OBVIOUS
<1>2. s \in KnownStream
  <2>1. id # 0
    BY KnownIs
  <2> QED
    BY <1>1, <2>1 DEF KnownStream
<1>3. PICK new : new = <<s>>
  OBVIOUS
<1>4. new \in Seq(KnownStream) /\ Len(new) = 1 /\ new[1] = s
  BY <1>2, <1>3
<1>5. /\ num_proc \in 3..MaxPty /\ MaxPty \in Nat /\ num_proc + 1 <= MaxPty
      /\ tags \in [PtyIdx -> Tag] /\ num_proc \in PtyIdx
  BY MaxPtyAssumption DEF DemuxInv, TypeOK, TableFull, PtyIdx, BuiltinCount
<1>6. \A i \in 0..(num_proc - 1) : tags'[i] = tags[i]
  BY <1>5 DEF PtyIdx
<1>7. tags'[num_proc] = NewTag(s)
  BY <1>1, <1>5 DEF NewTag
<1>8. \A k \in 1..Len(new) : tags'[num_proc + k - 1] = NewTag(new[k])
  <2> SUFFICES ASSUME NEW k \in 1..Len(new) PROVE tags'[num_proc + k - 1] = NewTag(new[k])
    OBVIOUS
  <2>1. k = 1 /\ num_proc + k - 1 = num_proc
    BY <1>4, <1>5
  <2> QED
    BY <1>4, <1>7, <2>1
<1>9. PICK r : r = m.registry
  OBVIOUS
<1>10. r \in BOOLEAN /\ (r <=> virtioso_registry_json' # <<>>)
  BY <1>9, StateFields DEF Agrees
<1>11. WithMore(m, new, r) \in MState /\ Agrees(WithMore(m, new, r))'
  <2>1. num_proc' = num_proc + Len(new) /\ num_proc + Len(new) <= MaxPty
    BY <1>4, <1>5
  <2> QED
    BY <1>4, <1>6, <1>8, <1>10, <2>1, AgreesMore
<1> QED
  BY <1>1, <1>3, <1>9, <1>11, Zenon

\* The last byte of an announcement
LEMMA AnnounceByte ==
    ASSUME DemuxInv, NEW m \in MState, NEW g \in Record, NEW w \in Seq(Byte),
           Agrees(m), InRecord(g, w), InText(g, w), g.kind # "registry", Tail(w) = <<>>,
           NEW o \in {out, Mirrored(Head(w))}, FeedVirtiosoByte(Head(w), o), Clean(Head(w), o), alive'
    PROVE  Goes(m, g, Tail(w))
<1>1. PICK ch : ch = Head(w)
  OBVIOUS
<1>2. ch \in Byte
  BY <1>1, HeadAndTail DEF InText
<1>3. ControlAnnounce(ch, o) /\ Append(control_registry_json, ch) = TextOf(g)
  BY <1>1, TextByte
<1>4. /\ control_state' = "IDLE" /\ out' = o /\ UNCHANGED <<parser, virtioso_registry_json, downlink_ack_count>>
  BY <1>3 DEF ControlAnnounce
<1>5. ParserRest'
  BY <1>4 DEF ParserRest, parser, InRecord
<1>6. g.kind \in {"connected", "disconnected"} /\ g.id \in Byte /\ g.name \in Texts(1) /\ g.name \in Seq(Byte)
  BY RecordFields DEF InText, HasText, Texts
<1>7. Append(control_registry_json, ch) = <<g.id>> \o g.name
  BY <1>3 DEF TextOf
<1>8. PICK p : p = Append(control_registry_json, ch)
  OBVIOUS
<1>9. Head(p) = g.id /\ Tail(p) = g.name
  <2>1. p = <<g.id>> \o g.name
    BY <1>7, <1>8
  <2> QED
    BY <1>6, <2>1, FirstOf
<1>10. /\ pending_ctrl_type = STREAM_CONNECTED =>
              IF Known(Head(p)) \/ TableFull(1) THEN UNCHANGED table
              ELSE /\ tags' = [tags EXCEPT ![num_proc] =
                          [name |-> Tail(p), value |-> Head(p), input |-> FALSE]]
                   /\ num_proc' = num_proc + 1
       /\ pending_ctrl_type # STREAM_CONNECTED => UNCHANGED table
  BY <1>1, <1>3, <1>8, Zenon DEF Clean
<1>11. /\ g.kind = "connected" => pending_ctrl_type = STREAM_CONNECTED
       /\ g.kind = "disconnected" => pending_ctrl_type # STREAM_CONNECTED
  BY ProtocolBytes DEF InText, Reads, TypeOf
<1>m. ~m.dead
  BY DEF Agrees
<1>12. CASE g.kind = "disconnected"
  <2>1. Meaning(m, g) = m
    BY <1>m, <1>12 DEF Meaning
  <2>2. Agrees(m)'
    BY <1>1, <1>2, <1>4, <1>10, <1>11, <1>12, AgreesSame
  <2> QED
    BY <1>5, <2>1, <2>2, Rests
<1>13. CASE g.kind = "connected"
  <2>1. Meaning(m, g) = MeaningOfConnected(m, g)
    BY <1>m, <1>13 DEF Meaning
  <2>2. /\ Known(g.id) <=> g.id \in IdsOf(m) \cup {0}
        /\ TableFull(1) <=> ~Room(m, 1)
    BY KnownIs
  <2>3. CASE Known(g.id) \/ TableFull(1)
    <3>1. Meaning(m, g) = m
      BY <2>1, <2>2, <2>3, Zenon DEF MeaningOfConnected
    <3>2. UNCHANGED table
      BY <1>9, <1>10, <1>11, <1>13, <2>3
    <3>3. Agrees(m)'
      BY <1>1, <1>2, <1>4, <3>2, AgreesSame
    <3> QED
      BY <1>5, <3>1, <3>3, Rests
  <2>4. CASE ~(Known(g.id) \/ TableFull(1))
    <3>1. PICK s, x : s = [id |-> g.id, name |-> g.name, input |-> FALSE]
                      /\ x = WithMore(m, <<s>>, m.registry)
      OBVIOUS
    <3>2. x \in MState /\ Agrees(x)'
      <4>1. /\ tags' = [tags EXCEPT ![num_proc] = [name |-> g.name, value |-> g.id, input |-> FALSE]]
            /\ num_proc' = num_proc + 1
        BY <1>9, <1>10, <1>11, <1>13, <2>4
      <4> QED
        BY <1>1, <1>2, <1>4, <1>6, <2>4, <3>1, <4>1, AnnouncedNew
    <3>3. Meaning(m, g) = [m EXCEPT !.streams = Append(@, s)]
      BY <2>1, <2>2, <2>4, <3>1, Zenon DEF MeaningOfConnected
    <3>4. Append(m.streams, s) = m.streams \o <<s>>
      <4>1. m.streams \in Seq(KnownStream)
        BY StateFields
      <4> QED
        BY <4>1
    <3>5. Meaning(m, g) = x
      <4>1. PICK z : z = Append(m.streams, s)
        OBVIOUS
      <4>2. [m EXCEPT !.streams = Append(@, s)] = [m EXCEPT !.streams = z]
        BY <4>1
      <4>3. [m EXCEPT !.streams = z] = [streams |-> z, got |-> m.got, acks |-> m.acks,
                                        registry |-> m.registry, dead |-> m.dead]
        BY StateFields
      <4> QED
        BY <3>1, <3>3, <3>4, <4>1, <4>2, <4>3, Zenon DEF WithMore
    <3> QED
      BY <1>5, <3>2, <3>5, Rests
  <2> QED
    BY <2>3, <2>4
<1> QED
  BY <1>6, <1>12, <1>13

\* The streams new can be added to those of m.
Addable(m, new) ==
    /\ new # <<>>
    /\ Room(m, Len(new))
    /\ \A k \in DOMAIN new : new[k].id \in ValidStreamId \ IdsOf(m)
    /\ \A k \in DOMAIN new : new[k].name \notin NamesOf(m)
    /\ \A j, k \in DOMAIN new : j # k => /\ new[j].id # new[k].id
                                         /\ new[j].name # new[k].name

\* The demuxer accepts the streams that can be added.
LEMMA AcceptsAddable ==
    ASSUME DemuxInv, NEW m \in MState, Agrees(m), NEW new \in Seq(KnownStream)
    PROVE  RegistryAcceptable(new) <=> Addable(m, new)
<1> DEFINE V == [id: ValidStreamId, name: Seq(Byte), input: BOOLEAN]
<1>1. DOMAIN new = 1..Len(new) /\ Len(new) \in Nat /\ \A k \in 1..Len(new) : new[k] \in KnownStream
  OBVIOUS
<1>2. TableFull(Len(new)) <=> ~Room(m, Len(new))
  BY <1>1, KnownIs
<1>3. \A k \in 1..Len(new) :
         Fresh(new[k]) <=> new[k].id \notin IdsOf(m) \cup {0} /\ new[k].name \notin NamesOf(m)
  BY KnownIs
<1>4. new \in Seq(V) <=> \A k \in 1..Len(new) : new[k].id \in ValidStreamId
  <2>1. ASSUME new \in Seq(V) PROVE \A k \in 1..Len(new) : new[k].id \in ValidStreamId
    <3>1. \A k \in 1..Len(new) : new[k] \in V
      BY <2>1, ElementOfSequence
    <3> QED
      BY <3>1
  <2>2. ASSUME \A k \in 1..Len(new) : new[k].id \in ValidStreamId PROVE new \in Seq(V)
    <3>1. \A k \in 1..Len(new) : new[k] \in V
      BY <1>1, <2>2 DEF KnownStream
    <3> HIDE DEF V
    <3> QED
      BY <1>1, <3>1
  <2> QED
    BY <2>1, <2>2
<1>5. 0 \notin ValidStreamId
  BY ProtocolBytes DEF DEFAULT
<1>6. (\A k \in 1..Len(new) : \A j \in 1..(k - 1) : /\ new[j].id # new[k].id
                                                    /\ new[j].name # new[k].name)
      <=> \A j, k \in 1..Len(new) : j # k => new[j].id # new[k].id /\ new[j].name # new[k].name
  <2> DEFINE D(j, k) == new[j].id # new[k].id /\ new[j].name # new[k].name
  <2>1. \A j, k : D(j, k) <=> D(k, j)
    OBVIOUS
  <2> HIDE DEF D
  <2>2. (\A k \in 1..Len(new) : \A j \in 1..(k - 1) : D(j, k))
        <=> \A j, k \in 1..Len(new) : j # k => D(j, k)
    <3>1. ASSUME \A k \in 1..Len(new) : \A j \in 1..(k - 1) : D(j, k),
                 NEW j \in 1..Len(new), NEW k \in 1..Len(new), j # k
          PROVE  D(j, k)
      <4>1. j \in 1..(k - 1) \/ k \in 1..(j - 1)
        BY <1>1, <3>1
      <4> QED
        BY <2>1, <3>1, <4>1, Zenon
    <3>2. ASSUME \A j, k \in 1..Len(new) : j # k => D(j, k),
                 NEW k \in 1..Len(new), NEW j \in 1..(k - 1)
          PROVE  D(j, k)
      <4>1. j \in 1..Len(new) /\ j # k
        BY <1>1
      <4> QED
        BY <3>2, <4>1
    <3> QED
      BY <3>1, <3>2
  <2> QED
    BY <2>2, Zenon DEF D
<1>7. RegistryAcceptable(new) <=>
          /\ new # <<>> /\ new \in Seq(V) /\ ~TableFull(Len(new))
          /\ \A k \in 1..Len(new) : Fresh(new[k])
          /\ \A k \in 1..Len(new) : \A j \in 1..(k - 1) : /\ new[j].id # new[k].id
                                                          /\ new[j].name # new[k].name
  BY Zenon DEF RegistryAcceptable
<1>8. Addable(m, new) <=>
          /\ new # <<>> /\ Room(m, Len(new))
          /\ \A k \in 1..Len(new) : new[k].id \in ValidStreamId \ IdsOf(m)
          /\ \A k \in 1..Len(new) : new[k].name \notin NamesOf(m)
          /\ \A j, k \in 1..Len(new) : j # k => new[j].id # new[k].id /\ new[j].name # new[k].name
  BY <1>1, Zenon DEF Addable
<1> HIDE DEF V
<1>9. ((\A k \in 1..Len(new) : new[k].id \in ValidStreamId) /\ (\A k \in 1..Len(new) : Fresh(new[k])))
      <=> /\ \A k \in 1..Len(new) : new[k].id \in ValidStreamId \ IdsOf(m)
          /\ \A k \in 1..Len(new) : new[k].name \notin NamesOf(m)
  BY <1>3, <1>5
<1> QED
  BY <1>2, <1>4, <1>6, <1>7, <1>8, <1>9, Zenon

\* What the first registry means
LEMMA MeaningOfFirst ==
    ASSUME NEW m \in MState, ~m.dead, ~m.registry, NEW g \in Record, g.kind = "registry", g.text # <<>>,
           NEW new, new = ListedStreams(g.text)
    PROVE  /\ WellFormedRegistry(g.text) /\ Addable(m, new) => Meaning(m, g) = WithMore(m, new, TRUE)
           /\ ~(WellFormedRegistry(g.text) /\ Addable(m, new)) => Meaning(m, g).dead
<1>1. Meaning(m, g) = MeaningOfRegistry(m, g)
  BY DEF Meaning
<1>2. MeaningOfRegistry(m, g) =
          IF WellFormedRegistry(g.text) /\ Addable(m, new)
          THEN [m EXCEPT !.streams = @ \o new, !.registry = TRUE] ELSE [m EXCEPT !.dead = TRUE]
  BY Zenon DEF MeaningOfRegistry, Addable, WellFormedRegistry
<1>3. [m EXCEPT !.streams = @ \o new, !.registry = TRUE] = WithMore(m, new, TRUE)
  <2>1. PICK z : z = m.streams \o new
    OBVIOUS
  <2>2. [m EXCEPT !.streams = @ \o new, !.registry = TRUE] = [m EXCEPT !.streams = z, !.registry = TRUE]
    BY <2>1
  <2>3. [m EXCEPT !.streams = z, !.registry = TRUE] =
            [streams |-> z, got |-> m.got, acks |-> m.acks, registry |-> TRUE, dead |-> m.dead]
    <3>1. PICK y : y = [m EXCEPT !.streams = z]
      OBVIOUS
    <3>2. [m EXCEPT !.streams = z, !.registry = TRUE] = [y EXCEPT !.registry = TRUE]
      BY <3>1, SMT
    <3>3. y = [streams |-> z, got |-> m.got, acks |-> m.acks, registry |-> m.registry, dead |-> m.dead]
      BY <3>1, StateFields
    <3>4. \A r : [y EXCEPT !.registry = r] =
              [streams |-> z, got |-> m.got, acks |-> m.acks, registry |-> r, dead |-> m.dead]
      BY <3>3
    <3> QED
      BY <3>2, <3>4, Zenon
  <2> QED
    BY <2>1, <2>2, <2>3, Zenon DEF WithMore
<1>4. [m EXCEPT !.dead = TRUE].dead
  BY StateFields
<1> QED
  BY <1>1, <1>2, <1>3, <1>4, Zenon

\* The last byte of a registry
LEMMA RegistryByte ==
    ASSUME DemuxInv, NEW m \in MState, NEW g \in Record, NEW w \in Seq(Byte),
           Agrees(m), InRecord(g, w), InText(g, w), g.kind = "registry", Tail(w) = <<>>,
           NEW o \in {out, Mirrored(Head(w))}, FeedVirtiosoByte(Head(w), o), Clean(Head(w), o)
    PROVE  Goes(m, g, Tail(w))
<1>1. PICK ch : ch = Head(w)
  OBVIOUS
<1>2. ch \in Byte
  BY <1>1, HeadAndTail DEF InText
<1>3. ControlRegistry(ch, o) /\ Append(control_registry_json, ch) = g.text
  BY <1>1, TextByte DEF TextOf
<1>4. out' = o /\ UNCHANGED <<parser, downlink_ack_count>>
  BY <1>3 DEF ControlRegistry
<1>5. PICK text, new : text = g.text /\ new = ListedStreams(g.text)
  OBVIOUS
<1>6. text \in Seq(Byte) /\ text # <<>> /\ new \in Seq(KnownStream)
  <2>1. text \in Seq(Byte)
    BY <1>5, RecordFields DEF Texts
  <2>2. text # <<>>
    <3>1. control_registry_json \in Seq(Byte)
      BY DEF DemuxInv, TypeOK
    <3>2. Append(control_registry_json, ch) # <<>>
      BY <3>1
    <3> QED
      BY <1>3, <1>5, <3>2
  <2> QED
    BY <1>5, <2>1, <2>2, ListedType
<1>7. IF virtioso_registry_json # <<>>
      THEN control_state' = "IDLE" /\ alive' /\ UNCHANGED <<virtioso_registry_json, table>>
      ELSE /\ virtioso_registry_json' = text
           /\ alive' <=> (WellFormedRegistry(text) /\ RegistryAcceptable(new))
           /\ (WellFormedRegistry(text) /\ RegistryAcceptable(new)) =>
                  /\ control_state' = "IDLE"
                  /\ tags' = WithStreams(new) /\ num_proc' = num_proc + Len(new)
  BY <1>1, <1>3, <1>5, Zenon DEF Clean
<1>m. ~m.dead /\ (m.registry <=> virtioso_registry_json # <<>>)
  BY DEF Agrees
<1>8. CASE m.registry
  <2>1. Meaning(m, g) = m
    <3>1. MeaningOfRegistry(m, g) = m
      BY <1>8, Zenon DEF MeaningOfRegistry
    <3> QED
      BY <1>m, <3>1 DEF Meaning
  <2>2. control_state' = "IDLE" /\ alive' /\ UNCHANGED <<virtioso_registry_json, table>>
    BY <1>7, <1>8, <1>m
  <2>3. Agrees(m)'
    BY <1>1, <1>2, <1>4, <2>2, AgreesSame
  <2>4. ParserRest'
    BY <1>4, <2>2 DEF ParserRest, parser, InRecord
  <2> QED
    BY <2>1, <2>2, <2>3, <2>4, Rests
<1>9. CASE ~m.registry
  <2>1. /\ virtioso_registry_json' = text
        /\ alive' <=> (WellFormedRegistry(text) /\ RegistryAcceptable(new))
        /\ (WellFormedRegistry(text) /\ RegistryAcceptable(new)) =>
               /\ control_state' = "IDLE"
               /\ tags' = WithStreams(new) /\ num_proc' = num_proc + Len(new)
    BY <1>7, <1>9, <1>m, Zenon
  <2>2. RegistryAcceptable(new) <=> Addable(m, new)
    BY <1>6, AcceptsAddable
  <2>3. /\ WellFormedRegistry(text) /\ Addable(m, new) => Meaning(m, g) = WithMore(m, new, TRUE)
        /\ ~(WellFormedRegistry(text) /\ Addable(m, new)) => Meaning(m, g).dead
    BY <1>5, <1>6, <1>9, <1>m, MeaningOfFirst
  <2>4. CASE ~alive'
    BY <2>1, <2>2, <2>3, <2>4 DEF Goes
  <2>5. CASE alive'
    <3>1. /\ WellFormedRegistry(text) /\ RegistryAcceptable(new) /\ Meaning(m, g) = WithMore(m, new, TRUE)
          /\ control_state' = "IDLE" /\ tags' = WithStreams(new) /\ num_proc' = num_proc + Len(new)
      BY <2>1, <2>2, <2>3, <2>5
    <3>2. /\ num_proc \in 3..MaxPty /\ MaxPty \in Nat /\ Len(new) \in Nat /\ num_proc + Len(new) <= MaxPty
      <4>1. ~TableFull(Len(new))
        BY <3>1 DEF RegistryAcceptable
      <4> QED
        BY <1>6, <4>1, MaxPtyAssumption DEF DemuxInv, TypeOK, TableFull, BuiltinCount
    <3>3. \A i \in 0..(num_proc - 1) : tags'[i] = tags[i]
      <4> SUFFICES ASSUME NEW i \in 0..(num_proc - 1) PROVE tags'[i] = tags[i]
        OBVIOUS
      <4>1. i \in PtyIdx /\ ~(num_proc <= i)
        BY <3>2 DEF PtyIdx
      <4> QED
        BY <3>1, <4>1 DEF WithStreams
    <3>4. \A k \in 1..Len(new) : tags'[num_proc + k - 1] = NewTag(new[k])
      <4> SUFFICES ASSUME NEW k \in 1..Len(new) PROVE tags'[num_proc + k - 1] = NewTag(new[k])
        OBVIOUS
      <4>1. PICK i : i = num_proc + k - 1
        OBVIOUS
      <4>2. i \in PtyIdx /\ num_proc <= i /\ i < num_proc + Len(new) /\ i - num_proc + 1 = k
        BY <3>2, <4>1 DEF PtyIdx
      <4>3. tags'[i] = NewTag(new[i - num_proc + 1])
        BY <3>1, <4>2, Zenon DEF WithStreams
      <4> QED
        BY <4>1, <4>2, <4>3
    <3>5. WithMore(m, new, TRUE) \in MState /\ Agrees(WithMore(m, new, TRUE))'
      <4>1. TRUE <=> virtioso_registry_json' # <<>>
        BY <1>6, <2>1
      <4> QED
        BY <1>1, <1>2, <1>4, <1>6, <3>1, <3>2, <3>3, <3>4, <4>1, AgreesMore
    <3>6. ParserRest'
      BY <1>4, <3>1 DEF ParserRest, parser, InRecord
    <3> QED
      BY <2>5, <3>1, <3>5, <3>6, Rests
  <2> QED
    BY <2>4, <2>5
<1> QED
  BY <1>8, <1>9

\* A byte of a record takes the demuxer on towards what the record means.
LEMMA DecodeMoves ==
    ASSUME DemuxInv, alive, NEW m, NEW g, NEW w, Decodes(m, g, w), w # <<>>,
           NEW o \in {out, Mirrored(Head(w))}, FeedVirtiosoByte(Head(w), o), Clean(Head(w), o)
    PROVE  Goes(m, g, Tail(w))
<1>1. m \in MState /\ g \in Record /\ w \in Seq(Byte) /\ Agrees(m)
  BY DEF Decodes
<1>2. control_state # "REGISTRY_JSON" => alive'
  BY DEF Clean
<1>3. CASE AtRecord(g, w)
  <2>1. alive'
    BY <1>2, <1>3 DEF AtRecord, ParserRest
  <2> QED
    BY <1>1, <1>3, <2>1, PlainByte, EscapeByte
<1>4. CASE AtEscape(g, w)
  <2>1. alive'
    BY <1>2, <1>4 DEF AtEscape
  <2> QED
    BY <1>1, <1>4, <2>1, SecondByte
<1>5. CASE InFrame(m, g, w)
  <2>1. alive'
    BY <1>2, <1>5 DEF InFrame
  <2> QED
    BY <1>1, <1>5, <2>1, FrameByte, FrameEscape
<1>6. CASE InRecord(g, w)
  <2>1. CASE AtAck(g, w)
    <3>1. alive'
      BY <1>2, <2>1 DEF AtAck
    <3> QED
      BY <1>1, <1>6, <2>1, <3>1, AckByte
  <2>2. CASE AtType(g, w)
    <3>1. alive'
      BY <1>2, <2>2 DEF AtType
    <3> QED
      BY <1>1, <1>6, <2>2, <3>1, TypeByte
  <2>3. CASE AtHi(g, w)
    <3>1. alive'
      BY <1>2, <2>3 DEF AtHi, Reads
    <3> QED
      BY <1>1, <1>6, <2>3, <3>1, HiByte
  <2>4. CASE AtLo(g, w)
    <3>1. alive'
      BY <1>2, <2>4 DEF AtLo, Reads
    <3> QED
      BY <1>1, <1>6, <2>4, <3>1, LoByte
  <2>5. CASE InText(g, w)
    <3>1. CASE Tail(w) # <<>>
      <4>1. ControlPayload(Head(w), o) /\ (alive' => Goes(m, g, Tail(w)))
        BY <1>1, <1>6, <2>5, <3>1, TextByte
      <4> QED
        BY <4>1 DEF ControlPayload
    <3>2. CASE Tail(w) = <<>> /\ g.kind = "registry"
      BY <1>1, <1>6, <2>5, <3>2, RegistryByte
    <3>3. CASE Tail(w) = <<>> /\ g.kind # "registry"
      <4>1. alive'
        BY <1>2, <2>5, <3>3 DEF InText, Reads
      <4> QED
        BY <1>1, <1>6, <2>5, <3>3, <4>1, AnnounceByte
    <3> QED
      BY <3>1, <3>2, <3>3
  <2> QED
    BY <1>6, <2>1, <2>2, <2>3, <2>4, <2>5 DEF InRecord
<1> QED
  BY <1>3, <1>4, <1>5, <1>6 DEF Decodes

\* When no byte is left, what the record means is done.
LEMMA NothingLeft ==
    ASSUME DemuxInv, NEW m, NEW g, Decodes(m, g, <<>>)
    PROVE  ParserRest /\ Meaning(m, g) = m
<1>1. m \in MState /\ g \in Record /\ Agrees(m) /\ ~m.dead
  BY DEF Decodes, Agrees
<1>b. ESC \in Byte /\ DEFAULT \in Byte
  BY ProtocolBytes
<1>c. \A b \in Byte, s \in Seq(Byte) : <<b>> \o s # <<>>
  BY FirstOf
<1>2. g.kind # "plain" => EncodeFrame(g) # <<>>
  <2>1. g.kind \in {"data", "ack"} \/ HasText(g) \/ g.kind = "plain"
    BY <1>1, RecordFields DEF HasText
  <2>2. ASSUME g.kind # "plain" PROVE \E v \in Seq(Byte) : EncodeFrame(g) = <<ESC>> \o v
    BY <1>1, <2>1, <2>2, RecordBegins, Zenon
  <2> QED
    BY <1>b, <1>c, <2>2, Zenon
<1>3. ~AtEscape(g, <<>>)
  <2> SUFFICES ASSUME AtEscape(g, <<>>) PROVE FALSE
    OBVIOUS
  <2>1. EncodeFrame(g) = <<ESC>> \o <<>> /\ g.kind # "plain"
    BY DEF AtEscape
  <2>2. PICK f : f = EncodeFrame(g)
    OBVIOUS
  <2>3. Tail(f) = <<>>
    BY <2>1, <2>2
  <2>4. CASE g.kind = "data"
    <3>1. g \in DataRecord
      BY <1>1, <2>4, RestRecords
    <3>2. PICK v : v = <<g.id>> \o After(g.payload)
      OBVIOUS
    <3>3. f = <<ESC>> \o v /\ v \in Seq(Byte) /\ g.id \in Byte /\ After(g.payload) \in Seq(Byte)
      BY <2>2, <3>1, <3>2, FrameBytes, AfterType, Zenon
    <3>4. Tail(f) = v /\ v # <<>>
      <4>1. Tail(f) = v
        BY <1>b, <3>3, FirstOf, Zenon
      <4>2. v # <<>>
        BY <3>2, <3>3, FirstOf
      <4> QED
        BY <4>1, <4>2
    <3> QED
      BY <2>3, <3>4
  <2>5. CASE g.kind = "ack"
    <3>1. f = <<ESC>> \o <<CONTROL, DOWNLINK_ACK>>
      BY <1>1, <2>2, <2>5, RecordBegins, Zenon
    <3> QED
      BY <2>3, <3>1
  <2>6. CASE HasText(g)
    <3>1. PICK v, u : v = FromControl(TypeOf(g), TextOf(g)) /\ u = FromType(TypeOf(g), TextOf(g))
      OBVIOUS
    <3>2. f = <<ESC>> \o v /\ v \in Seq(Byte) /\ v = <<CONTROL>> \o u /\ u \in Seq(Byte)
      BY <1>1, <2>2, <2>6, <3>1, RecordBegins, TextFacts, Zenon DEF FromControl
    <3>3. Tail(f) = v /\ v # <<>>
      <4>1. CONTROL \in Byte
        BY ProtocolBytes
      <4> QED
        BY <1>b, <1>c, <3>2, <4>1, FirstOf, Zenon
    <3> QED
      BY <2>3, <3>3
  <2> QED
    BY <1>1, <2>1, <2>4, <2>5, <2>6, RecordFields DEF HasText
<1>4. ~InFrame(m, g, <<>>)
  <2> SUFFICES ASSUME InFrame(m, g, <<>>) PROVE FALSE
    OBVIOUS
  <2>1. PICK e : e = g.payload
    OBVIOUS
  <2>2. e \in Seq(Byte)
    BY <1>1, <2>1, RecordFields DEF InFrame
  <2>3. After(e) # <<>>
    BY <2>2, AfterType
  <2>4. e # <<>> => <<ESC>> \o After(Tail(e)) # <<>>
    <3> SUFFICES ASSUME e # <<>> PROVE <<ESC>> \o After(Tail(e)) # <<>>
      OBVIOUS
    <3>1. After(Tail(e)) \in Seq(Byte)
      BY <2>2, HeadAndTail, AfterType
    <3> QED
      BY <1>b, <1>c, <3>1
  <2> QED
    BY <2>1, <2>3, <2>4 DEF InFrame
<1>5. ~InRecord(g, <<>>)
  <2>1. ~AtAck(g, <<>>) /\ ~InText(g, <<>>)
    BY DEF AtAck, InText
  <2>2. ASSUME HasText(g)
        PROVE  /\ FromType(TypeOf(g), TextOf(g)) # <<>> /\ FromHi(TextOf(g)) # <<>>
               /\ FromLo(TextOf(g)) # <<>>
    <3>1. PICK t, x, n : t = TypeOf(g) /\ x = TextOf(g) /\ n = Len(TextOf(g))
      OBVIOUS
    <3>2. /\ t \in Byte /\ x \in Seq(Byte) /\ n \in Nat /\ n < (ByteMax + 1) * (ByteMax + 1)
          /\ FromLo(x) \in Seq(Byte) /\ FromHi(x) \in Seq(Byte)
      BY <1>1, <2>2, <3>1, TextFacts
    <3>3. n \div (ByteMax + 1) \in Byte /\ n % (ByteMax + 1) \in Byte
      BY <3>2, TwoDigits
    <3>4. /\ FromLo(x) = <<n % (ByteMax + 1)>> \o x
          /\ FromHi(x) = <<n \div (ByteMax + 1)>> \o FromLo(x)
          /\ FromType(t, x) = <<t>> \o FromHi(x)
      BY <3>1 DEF FromLo, FromHi, FromType
    <3> QED
      BY <1>c, <3>1, <3>2, <3>3, <3>4, Zenon
  <2>3. ~AtType(g, <<>>) /\ ~AtHi(g, <<>>) /\ ~AtLo(g, <<>>)
    BY <2>2, Zenon DEF AtType, AtHi, AtLo
  <2> QED
    BY <2>1, <2>3 DEF InRecord
<1>6. AtRecord(g, <<>>)
  BY <1>3, <1>4, <1>5 DEF Decodes
<1>7. g.kind = "plain" /\ EncodeFrame(g) = <<>>
  BY <1>2, <1>6 DEF AtRecord
<1>8. g = PlainRec(<<>>)
  BY <1>1, <1>7, RecordBegins, RestRecords
<1>9. Meaning(m, g) = m
  BY <1>1, <1>8, EmptyMeans
<1> QED
  BY <1>6, <1>9 DEF AtRecord

\* A step that leaves the parser, the streams and what they were given alone
LEMMA DecodesSame ==
    ASSUME NEW m, NEW g, NEW w, Decodes(m, g, w),
           UNCHANGED <<parser, control, virtioso_registry_json, tags, num_proc,
                       downlink_ack_count, out>>
    PROVE  Decodes(m, g, w)'
<1>1. UNCHANGED <<in_escape, cur_rx_stream, control_state, control_registry_len,
                  control_registry_json, pending_ctrl_type>>
  BY DEF parser, control
<1>2. Agrees(m) => Agrees(m)'
  BY Zenon DEF Agrees
<1>3. /\ AtRecord(g, w) => AtRecord(g, w)'
      /\ AtEscape(g, w) => AtEscape(g, w)'
  BY <1>1, Zenon DEF AtRecord, AtEscape, ParserRest
<1>4. InFrame(m, g, w) => InFrame(m, g, w)'
  BY <1>1, Zenon DEF InFrame, Selected
<1>5. InRecord(g, w) => InRecord(g, w)'
  BY <1>1, Zenon DEF InRecord, AtAck, AtType, AtHi, AtLo, InText, Reads
<1> QED
  BY <1>2, <1>3, <1>4, <1>5, Zenon DEF Decodes

\* The demuxer has done what the records sent mean, but for what is on the link.
OnTheWay(total) ==
    IF alive
    THEN \E w, m, g : w \in Seq(Byte) /\ Carries(w) /\ Decodes(m, g, w) /\ Meaning(m, g) = total
    ELSE total.dead

DecInv == losses \in Nat /\ (losses = 0 /\ ~faulted => OnTheWay(Total(sent)))

\* At the start nothing is sent and nothing is known.
LEMMA DecInit ==
    ASSUME SInit
    PROVE  DecInv
<1>1. InitTty /\ LinkInit
  BY DEF SInit
<1>2. alive /\ losses = 0 /\ sent = <<>>
  BY <1>1 DEF InitTty, LinkInit
<1>e. <<>> \in Seq(Byte) /\ <<>> \in Seq(Byte \ {ESC}) /\ <<>> \in Seq(Interruption)
  OBVIOUS
<1>3. Carries(<<>>)
  <2>1. CASE OuterMode = "raw"
    BY <1>1, <2>1 DEF LinkInit, Carries
  <2>2. CASE OuterMode = "nvidia-tcu"
    <3>1. FlattenSeq(<<>>) \o EncodeOuter(<<>>) = <<>>
      BY FlattenEmpty, OuterEmpty
    <3>2. wire = <<OUTER_ESC, OuterTag>>
      BY <1>1, <2>2 DEF LinkInit
    <3>3. <<OUTER_ESC, OuterTag>> = <<OUTER_ESC>> \o (<<OuterTag>> \o <<>>)
      <4>1. <<OUTER_ESC, OuterTag>> \o <<>> = <<OUTER_ESC>> \o (<<OuterTag>> \o <<>>)
        BY <1>e, TwoInTurn, TagBytes
      <4> QED
        BY <4>1
    <3>4. ~outer_in_escape /\ cur_outer_tag # OuterTag
      <4>1. cur_outer_tag = -1 /\ ~outer_in_escape
        BY <1>1 DEF InitTty
      <4> QED
        BY <4>1, TagBytes DEF Byte
    <3>5. Returning(FlattenSeq(<<>>) \o EncodeOuter(<<>>))
      BY <3>1, <3>2, <3>3, <3>4 DEF Returning
    <3> QED
      BY <1>e, <2>2, <3>5 DEF Carries, Reading
  <2> QED
    BY <2>1, <2>2, OuterAssumption
<1>4. Agrees(Nothing)
  <2>1. /\ Nothing.streams = <<>> /\ Nothing.got = [i \in PtyIdx |-> <<>>] /\ Nothing.acks = 0
        /\ Nothing.registry = FALSE /\ Nothing.dead = FALSE
    BY DEF Nothing
  <2>2. Len(Nothing.streams) = 0
    BY <2>1
  <2>3. \A i \in 0..2 : tags[i].name = <<i>>
    <3> SUFFICES ASSUME NEW i \in 0..2 PROVE tags[i].name = <<i>>
      OBVIOUS
    <3>1. i \in PtyIdx /\ i < 3
      BY MaxPtyAssumption DEF PtyIdx, BuiltinCount
    <3>2. tags[i] = BuiltinTag(i)
      BY <1>1, <3>1 DEF InitTty, BuiltinCount
    <3> QED
      BY <3>2 DEF BuiltinTag
  <2>4. /\ num_proc = 3 /\ out = [i \in PtyIdx |-> <<>>] /\ downlink_ack_count = 0
        /\ virtioso_registry_json = <<>>
    BY <1>1 DEF InitTty, BuiltinCount
  <2> QED
    BY <2>1, <2>2, <2>3, <2>4 DEF Agrees, BuiltinCount
<1>5. PICK g : g = PlainRec(<<>>)
  OBVIOUS
<1>6. g \in Record /\ EncodeFrame(g) = <<>> /\ Meaning(Nothing, g) = Nothing
  <2>1. g \in Record /\ g.kind = "plain" /\ g.payload = <<>>
    BY <1>e, <1>5, RestRecords DEF PlainRec
  <2>2. ~Nothing.dead
    BY <1>4 DEF Agrees
  <2> QED
    BY <1>5, <2>1, <2>2, RecordBegins, NothingType, EmptyMeans
<1>7. Decodes(Nothing, g, <<>>)
  <2>1. ParserRest
    BY <1>1 DEF InitTty, ParserRest
  <2> QED
    BY <1>e, <1>4, <1>6, <2>1, NothingType DEF Decodes, AtRecord
<1>8. Total(sent) = Nothing
  <2>1. <<>> \in Seq(Record)
    OBVIOUS
  <2> QED
    BY <1>2, <1>6, <2>1, TotalOf, Zenon
<1> QED
  BY <1>2, <1>3, <1>6, <1>7, <1>8, <1>e DEF DecInv, OnTheWay

\* The next record is sent.
LEMMA DecSent ==
    ASSUME SInv, DecInv, NEW script \in Scripts, Send(script)
    PROVE  DecInv'
<1>1. PICK f : f = script[Len(sent) + 1]
  OBVIOUS
<1>2. /\ f \in Record /\ sent' = Append(sent, f) /\ sent \in Seq(Record)
      /\ wire = <<>> /\ wire' = EncodeOuter(EncodeFrame(f)) /\ UNCHANGED <<vars, losses, faulted>>
  BY <1>1, NextRecord DEF SInv, Send
<1>3. Total(sent') = Meaning(Total(sent), f)
  BY <1>2, TotalOf, Zenon
<1>4. UNCHANGED <<alive, outer, parser, control, virtioso_registry_json, tags, num_proc,
                  downlink_ack_count, out>>
  BY <1>2 DEF vars, table
<1>5. PICK total : total = Total(sent)
  OBVIOUS
<1>t. PICK next : next = Meaning(total, f)
  OBVIOUS
<1>s. Total(sent)' = next
  BY <1>3, <1>5, <1>t, Zenon
<1> SUFFICES ASSUME OnTheWay(total) PROVE OnTheWay(next)'
  <2>1. losses' = losses /\ faulted' = faulted
    BY <1>2
  <2>2. losses \in Nat /\ (losses = 0 /\ ~faulted => OnTheWay(total))
    BY <1>5, Zenon DEF DecInv
  <2>3. ASSUME losses' = 0, ~faulted' PROVE OnTheWay(total)
    <3>1. losses = 0 /\ ~faulted
      BY <2>1, <2>3
    <3> QED
      BY <2>2, <3>1, Zenon
  <2>4. losses' \in Nat
    BY <2>1, <2>2
  <2> QED
    BY <2>3, <2>4, <1>s, Zenon DEF DecInv
<1>6. CASE ~alive
  <2>1. total.dead
    BY <1>5, <1>6 DEF OnTheWay
  <2>2. Meaning(total, f) = total
    BY <2>1 DEF Meaning
  <2>3. ~alive' /\ next.dead
    BY <1>4, <1>6, <1>t, <2>1, <2>2
  <2> QED
    BY <2>3, Zenon DEF OnTheWay
<1>7. CASE alive
  <2>1. PICK w, m, g : w \in Seq(Byte) /\ Carries(w) /\ Decodes(m, g, w) /\ Meaning(m, g) = total
    BY <1>5, <1>7 DEF OnTheWay
  <2>2. w = <<>> /\ OuterOpen
    BY <1>2, <2>1, CarriesNothing
  <2>3. ParserRest /\ Meaning(m, g) = m
    BY <2>1, <2>2, NothingLeft DEF SInv
  <2>4. PICK v : v = EncodeFrame(f)
    OBVIOUS
  <2>5. v \in Seq(Byte)
    BY <1>2, <2>4, EncodeFrameType
  <2>6. Carries(v)'
    BY <1>2, <1>4, <2>2, <2>4, <2>5, CarriesRecord
  <2>7. Decodes(m, f, v)'
    <3>1. Decodes(m, g, w)'
      BY <1>4, <2>1, DecodesSame
    <3>2. m \in MState /\ Agrees(m)'
      BY <3>1 DEF Decodes
    <3>3. AtRecord(f, v)'
      BY <1>4, <2>3, <2>4 DEF AtRecord, ParserRest, parser, control
    <3> QED
      BY <1>2, <2>5, <3>2, <3>3 DEF Decodes
  <2>8. Meaning(m, f) = next
    BY <1>t, <2>1, <2>3, Zenon
  <2>9. alive'
    BY <1>4, <1>7
  <2> QED
    BY <2>5, <2>6, <2>7, <2>8, <2>9, Zenon DEF OnTheWay
<1> QED
  BY <1>6, <1>7

\* A byte arrives.
LEMMA DecReceived ==
    ASSUME SInv, DecInv, Receive
    PROVE  DecInv'
<1>1. /\ DemuxInv /\ wire # <<>> /\ wire' = Tail(wire) /\ Feed(Head(wire)) /\ UNCHANGED <<sent, losses>>
      /\ faulted' = (faulted \/ ~FaultFree!Feed(Head(wire)))
  BY DEF SInv, Receive
<1>c. PICK ch : ch = Head(wire)
  OBVIOUS
<1>t. PICK total : total = Total(sent)
  OBVIOUS
<1> SUFFICES ASSUME OnTheWay(total), FaultFree!Feed(ch) PROVE OnTheWay(total)'
  <2>1. losses \in Nat /\ losses' \in Nat
    BY <1>1 DEF DecInv
  <2>2. ASSUME losses' = 0, ~faulted' PROVE OnTheWay(total) /\ FaultFree!Feed(ch)
    <3>1. ~faulted /\ FaultFree!Feed(Head(wire)) /\ losses = 0
      BY <1>1, <2>2
    <3> QED
      BY <1>c, <1>t, <3>1, Zenon DEF DecInv
  <2>3. Total(sent)' = total
    BY <1>1, <1>t
  <2> QED
    BY <2>1, <2>2, <2>3, Zenon DEF DecInv
<1>2. alive /\ OuterMoves(ch)
      /\ (~Passes(ch) /\ ~(outer_in_escape /\ ch = OUTER_RESET) => UnchangedInner)
  BY <1>1, <1>c, FeedMoves
<1>3. PICK w, m, g : w \in Seq(Byte) /\ Carries(w) /\ Decodes(m, g, w) /\ Meaning(m, g) = total
  BY <1>2 DEF OnTheWay
<1>5. \/ Passes(ch) /\ w # <<>> /\ Head(w) = ch /\ Carries(Tail(w))'
      \/ ~Passes(ch) /\ Carries(w)' /\ ~(outer_in_escape /\ ch = OUTER_RESET)
  BY <1>1, <1>2, <1>3, <1>c, CarriesOn
<1>6. CASE Passes(ch) /\ w # <<>> /\ Head(w) = ch /\ Carries(Tail(w))'
  <2>1. PICK o \in {out, Mirrored(ch)} : FeedVirtiosoByte(ch, o) /\ Clean(ch, o)
    BY <1>1, <1>6, CleanFeed
  <2>2. Goes(m, g, Tail(w))
    BY <1>1, <1>2, <1>3, <1>6, <2>1, DecodeMoves
  <2>3. Tail(w) \in Seq(Byte)
    BY <1>3, <1>6, HeadAndTail
  <2>4. CASE alive'
    <3>1. PICK m2, g2 : Decodes(m2, g2, Tail(w))' /\ Meaning(m2, g2) = Meaning(m, g)
      BY <2>2, <2>4 DEF Goes
    <3> QED
      BY <1>3, <1>6, <2>3, <2>4, <3>1, Zenon DEF OnTheWay
  <2>5. CASE ~alive'
    <3>1. total.dead
      BY <1>3, <2>2, <2>5 DEF Goes
    <3> QED
      BY <2>5, <3>1 DEF OnTheWay
  <2> QED
    BY <2>4, <2>5
<1>7. CASE ~Passes(ch) /\ Carries(w)' /\ ~(outer_in_escape /\ ch = OUTER_RESET)
  <2>1. /\ UNCHANGED <<parser, control, virtioso_registry_json, tags, num_proc, downlink_ack_count, out>>
        /\ UNCHANGED alive
    BY <1>2, <1>7 DEF UnchangedInner, table
  <2>2. Decodes(m, g, w)'
    BY <1>3, <2>1, DecodesSame
  <2>3. alive'
    BY <1>2, <2>1
  <2> QED
    BY <1>3, <1>7, <2>2, <2>3, Zenon DEF OnTheWay
<1> QED
  BY <1>5, <1>6, <1>7

\* A step that leaves the parser alone and what it gets
LEMMA DecSame ==
    ASSUME DecInv, UNCHANGED <<alive, parser, control, virtioso_registry_json, tags, num_proc,
                               downlink_ack_count, out, sent, losses, faulted>>,
           \A w \in Seq(Byte) : Carries(w) => Carries(w)'
    PROVE  DecInv'
<1>t. PICK total : total = Total(sent)
  OBVIOUS
<1>1. Total(sent)' = total
  BY <1>t
<1>2. ASSUME OnTheWay(total) PROVE OnTheWay(total)'
  <2>1. CASE ~alive
    BY <1>2, <2>1, Zenon DEF OnTheWay
  <2>2. CASE alive
    <3>1. PICK w, m, g : w \in Seq(Byte) /\ Carries(w) /\ Decodes(m, g, w) /\ Meaning(m, g) = total
      BY <1>2, <2>2 DEF OnTheWay
    <3>2. Decodes(m, g, w)'
      BY <3>1, DecodesSame
    <3> QED
      BY <2>2, <3>1, <3>2, Zenon DEF OnTheWay
  <2> QED
    BY <2>1, <2>2
<1> QED
  BY <1>1, <1>2, <1>t, Zenon DEF DecInv

\* Every step keeps the invariant.
LEMMA DecStep ==
    ASSUME SInv, DecInv, [SNext]_<<uvars, i_pty>>
    PROVE  DecInv'
<1>1. CASE UNCHANGED <<uvars, i_pty>> \/ SpawnPtyThread \/ MainJoins
  <2>1. /\ UNCHANGED <<alive, parser, control, virtioso_registry_json, tags, num_proc,
                       downlink_ack_count, out, sent, losses, faulted>>
        /\ UNCHANGED <<wire, outer>>
    BY <1>1 DEF uvars, vars, table, SpawnPtyThread, MainJoins
  <2>2. \A w \in Seq(Byte) : Carries(w) => Carries(w)'
    BY <2>1, CarriesSame
  <2> QED
    BY <2>1, <2>2, DecSame
<1>2. ASSUME NEW tag \in ChipTags \ {OuterTag}, NEW ch \in {0, ESC}, OtherChip(tag, ch)
      PROVE  DecInv'
  <2>1. UNCHANGED <<alive, parser, control, virtioso_registry_json, tags, num_proc,
                    downlink_ack_count, out, sent, losses, faulted>>
    BY <1>2 DEF OtherChip, vars, table
  <2>2. \A w \in Seq(Byte) : Carries(w) => Carries(w)'
    BY <1>2, CarriesInterrupted
  <2> QED
    BY <2>1, <2>2, DecSame
<1>3. CASE TargetReset \/ Hangup
  <2>1. losses' = losses + 1 /\ losses \in Nat
    BY <1>3 DEF TargetReset, Hangup, DecInv
  <2>2. losses' \in Nat /\ losses' # 0
    BY <2>1
  <2> QED
    BY <2>2 DEF DecInv
<1>4. CASE TtyFails
  BY <1>4 DEF TtyFails, DecInv
<1> QED
  BY <1>1, <1>2, <1>3, <1>4, DecSent, DecReceived DEF SNext, TtyThread, UNext

\* Whenever the link is drained, feed_virtioso_byte has done byte by byte what the
\* records mean: the streams and their order, every byte of every stream, the
\* acknowledgements; and the thread ends only on a registry that means its end.
\* For every series of records, every payload, and wherever other chips interrupt.
THEOREM RecordsDecoded == SSpec => []DecodesRecords
<1>1. SInit => DecInv
  BY DecInit
<1>2. SInv /\ DecInv /\ [SNext]_<<uvars, i_pty>> => DecInv'
  BY DecStep
<1>3. SInv /\ DecInv => DecodesRecords
  <2> SUFFICES ASSUME SInv, DecInv, losses = 0, ~faulted
               PROVE  LET m == Total(sent)
                      IN  /\ ~alive => m.dead
                          /\ (wire = <<>> /\ alive) =>
                                 /\ ~m.dead
                                 /\ num_proc = BuiltinCount + Len(m.streams)
                                 /\ \A k \in DOMAIN m.streams :
                                       tags[BuiltinCount + k - 1] = NewTag(m.streams[k])
                                 /\ \A i \in PtyIdx \ {RAW_CCPLEX} : out[i] = m.got[i]
                                 /\ downlink_ack_count = m.acks
                                 /\ ParserRest
    BY Zenon DEF DecodesRecords, Total
  <2>1. PICK total : total = Total(sent)
    OBVIOUS
  <2>2. OnTheWay(total)
    BY <2>1 DEF DecInv
  <2>3. ~alive => total.dead
    BY <2>2 DEF OnTheWay
  <2>4. ASSUME wire = <<>>, alive PROVE total \in MState /\ Agrees(total) /\ ParserRest
    <3>1. PICK w, m, g : w \in Seq(Byte) /\ Carries(w) /\ Decodes(m, g, w) /\ Meaning(m, g) = total
      BY <2>2, <2>4 DEF OnTheWay
    <3>2. w = <<>>
      BY <2>4, <3>1, CarriesNothing
    <3>3. ParserRest /\ total = m
      BY <3>1, <3>2, NothingLeft DEF SInv
    <3> QED
      BY <3>1, <3>3 DEF Decodes
  <2>5. total \in MState => DOMAIN total.streams = 1..Len(total.streams)
    BY StateFields
  <2> QED
    BY <2>1, <2>3, <2>4, <2>5, Zenon DEF Agrees
<1> QED
  BY <1>1, <1>2, <1>3, SInductive, PTL DEF SSpec
=============================================================================
