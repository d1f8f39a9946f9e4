-------------------------- MODULE HostDemuxProofs --------------------------
(***************************************************************************)
(* Proofs about HostDemux for every alphabet, table size, outer mode and   *)
(* set of faults, and for every sequence of bytes the link may deliver.    *)
(***************************************************************************)
EXTENDS HostDemux, SeqLemmas

-----------------------------------------------------------------------------
(* The bytes of the wire.                                                  *)

\* The protocol's values are bytes, and different.
LEMMA ProtocolBytes ==
    /\ ByteMax \in Nat /\ ByteMax >= 7
    /\ {DEFAULT, CONTROL, ESC, OUTER_ESC, OUTER_RESET} \subseteq Byte
    /\ {STREAM_CONNECTED, STREAM_DISCONNECTED, STREAM_REGISTRY, DOWNLINK_ACK} \subseteq Byte
    /\ ESC # DEFAULT /\ ESC # CONTROL /\ CONTROL # DEFAULT
    /\ STREAM_CONNECTED # STREAM_DISCONNECTED
    /\ {STREAM_CONNECTED, STREAM_DISCONNECTED} \cap {STREAM_REGISTRY, DOWNLINK_ACK} = {}
    /\ ValidStreamId = Byte \ {DEFAULT, CONTROL, ESC}
BY ByteMaxAssumption, ControlTypesAssumption
   DEF Byte, DEFAULT, CONTROL, ESC, OUTER_ESC, OUTER_RESET, STREAM_REGISTRY, DOWNLINK_ACK,
       STREAM_CONNECTED, STREAM_DISCONNECTED, ValidStreamId

Coded(b) == IF b = ESC THEN <<ESC, ESC>> ELSE <<b>>

CodedSeq(s) == [k \in DOMAIN s |-> Coded(s[k])]

\* A byte is coded as one byte or two.
LEMMA CodedType ==
    ASSUME NEW b \in Byte
    PROVE  Coded(b) \in Seq(Byte)
<1>1. <<ESC, ESC>> \in Seq(Byte) /\ <<b>> \in Seq(Byte)
  BY ProtocolBytes
<1> QED
  BY <1>1, Zenon DEF Coded

\* EscapePayload codes byte by byte.
LEMMA EscapeIs ==
    ASSUME NEW s \in Seq(Byte)
    PROVE  /\ EscapePayload(s) = FlattenSeq(CodedSeq(s))
           /\ CodedSeq(s) \in Seq(Seq(Byte)) /\ Len(CodedSeq(s)) = Len(s)
           /\ \A k \in 1..Len(s) : CodedSeq(s)[k] = Coded(s[k])
           /\ EscapePayload(s) \in Seq(Byte)
<1>1. CodedSeq(s) = [i \in DOMAIN s |-> IF s[i] = ESC THEN <<ESC, ESC>> ELSE <<s[i]>>]
  BY DEF CodedSeq, Coded
<1>2. EscapePayload(s) = FlattenSeq(CodedSeq(s))
  BY <1>1, Zenon DEF EscapePayload
<1>3. \A k \in 1..Len(s) : Coded(s[k]) \in Seq(Byte)
  BY ElementOfSeq, CodedType
<1>4. DOMAIN s = 1..Len(s) /\ Len(s) \in Nat
  OBVIOUS
<1>5. /\ CodedSeq(s) \in Seq(Seq(Byte)) /\ Len(CodedSeq(s)) = Len(s)
      /\ \A k \in 1..Len(s) : CodedSeq(s)[k] = Coded(s[k])
  BY <1>3, <1>4 DEF CodedSeq
<1> QED
  BY <1>2, <1>5, FlattenType

\* Nothing is coded as nothing.
LEMMA EscapeEmpty == EscapePayload(<<>>) = <<>>
<1>1. <<>> \in Seq(Byte) /\ Len(<<>>) = 0
  OBVIOUS
<1>2. CodedSeq(<<>>) \in Seq(Seq(Byte)) /\ Len(CodedSeq(<<>>)) = 0
  BY <1>1, EscapeIs, Zenon
<1>3. CodedSeq(<<>>) = <<>>
  BY <1>2, EmptySeq
<1> QED
  BY <1>1, <1>3, EscapeIs, FlattenEmpty

\* The first byte is coded first.
LEMMA EscapeFirst ==
    ASSUME NEW s \in Seq(Byte), s # <<>>
    PROVE  /\ Head(s) \in Byte /\ Tail(s) \in Seq(Byte)
           /\ EscapePayload(s) = Coded(Head(s)) \o EscapePayload(Tail(s))
<1>1. /\ Tail(s) \in Seq(Byte) /\ Head(s) \in Byte /\ Head(s) = s[1]
      /\ Len(Tail(s)) = Len(s) - 1 /\ \A k \in 1..Len(Tail(s)) : Tail(s)[k] = s[k + 1]
      /\ Len(s) \in Nat \ {0}
  OBVIOUS
<1> DEFINE c == CodedSeq(s)
           t == CodedSeq(Tail(s))
<1>2. c \in Seq(Seq(Byte)) /\ Len(c) = Len(s) /\ \A k \in 1..Len(s) : c[k] = Coded(s[k])
  BY EscapeIs, Zenon
<1>3. /\ t \in Seq(Seq(Byte)) /\ Len(t) = Len(Tail(s))
      /\ \A k \in 1..Len(Tail(s)) : t[k] = Coded(Tail(s)[k])
  BY <1>1, EscapeIs, Zenon
<1>4. EscapePayload(s) = FlattenSeq(c) /\ EscapePayload(Tail(s)) = FlattenSeq(t)
  BY <1>1, EscapeIs, Zenon
<1> HIDE DEF c, t
<1>5. c # <<>>
  BY <1>1, <1>2
<1>6. Head(c) = Coded(Head(s))
  BY <1>1, <1>2, <1>5
<1>7. Tail(c) = t
  <2>1. /\ Tail(c) \in Seq(Seq(Byte)) /\ Len(Tail(c)) = Len(t)
        /\ \A k \in 1..Len(t) : Tail(c)[k] = t[k]
    BY <1>1, <1>2, <1>3, <1>5
  <2> QED
    BY <1>3, <2>1, SeqEqual
<1>8. FlattenSeq(c) = Head(c) \o FlattenSeq(Tail(c))
  BY <1>2, <1>5, FlattenFirst
<1> QED
  BY <1>1, <1>4, <1>6, <1>7, <1>8, Zenon

\* One byte and the rest
LEMMA FirstOf ==
    ASSUME NEW b \in Byte, NEW s \in Seq(Byte), NEW w, w = <<b>> \o s
    PROVE  w \in Seq(Byte) /\ w # <<>> /\ Head(w) = b /\ Tail(w) = s
<1>1. <<b>> \in Seq(Byte) /\ Len(<<b>>) = 1 /\ <<b>>[1] = b
  OBVIOUS
<1>2. w \in Seq(Byte) /\ Len(w) = 1 + Len(s) /\ w[1] = b /\ Len(s) \in Nat
      /\ \A k \in 1..Len(s) : w[k + 1] = s[k]
  BY <1>1
<1>3. w # <<>>
  BY <1>2
<1>4. Head(w) = b
  BY <1>2, <1>3
<1>5. Tail(w) \in Seq(Byte) /\ Len(Tail(w)) = Len(s) /\ \A k \in 1..Len(s) : Tail(w)[k] = s[k]
  BY <1>2, <1>3
<1>6. Tail(w) = s
  BY <1>5, SeqEqual
<1> QED
  BY <1>2, <1>3, <1>4, <1>6

\* Concatenation of bytes is associative.
LEMMA ByteConcat ==
    ASSUME NEW a \in Seq(Byte), NEW b \in Seq(Byte), NEW c \in Seq(Byte)
    PROVE  a \o b \in Seq(Byte) /\ (a \o b) \o c = a \o (b \o c)
BY ConcatAssociative

\* Lengths add up.
LEMMA LenOfConcat ==
    ASSUME NEW a \in Seq(Byte), NEW b \in Seq(Byte)
    PROVE  Len(a \o b) = Len(a) + Len(b)
OBVIOUS

\* What a read takes and what it leaves are what there was.
LEMMA SplitAt ==
    ASSUME NEW s \in Seq(Byte), NEW n \in 0..Len(s)
    PROVE  /\ SubSeq(s, 1, n) \in Seq(Byte) /\ SubSeq(s, n + 1, Len(s)) \in Seq(Byte)
           /\ SubSeq(s, 1, n) \o SubSeq(s, n + 1, Len(s)) = s
<1> DEFINE a == SubSeq(s, 1, n)
           b == SubSeq(s, n + 1, Len(s))
<1>1. /\ a \in Seq(Byte) /\ b \in Seq(Byte) /\ Len(a) = n /\ Len(b) = Len(s) - n
      /\ \A k \in 1..n : a[k] = s[k]
      /\ \A k \in 1..(Len(s) - n) : b[k] = s[n + k]
  OBVIOUS
<1> HIDE DEF a, b
<1>2. a \o b \in Seq(Byte) /\ Len(a \o b) = Len(s) /\ \A k \in 1..Len(s) : (a \o b)[k] = s[k]
  <2>1. a \o b \in Seq(Byte) /\ Len(a \o b) = Len(s) /\ Len(s) \in Nat
    <3>1. a \o b \in Seq(Byte) /\ Len(a \o b) = Len(a) + Len(b)
      <4>1. a \in Seq(Byte) /\ b \in Seq(Byte)
        BY <1>1
      <4> QED
        BY <4>1, LenOfConcat, ByteConcat, Zenon
    <3>2. Len(s) \in Nat
      OBVIOUS
    <3>3. n + (Len(s) - n) = Len(s)
      BY <3>2
    <3> QED
      BY <1>1, <3>1, <3>2, <3>3, Zenon
  <2>2. \A k \in 1..Len(s) : (a \o b)[k] = IF k <= Len(a) THEN a[k] ELSE b[k - Len(a)]
    BY <1>1, <2>1
  <2>3. ASSUME NEW k \in 1..Len(s) PROVE (a \o b)[k] = s[k]
    <3>1. CASE k <= n
      BY <1>1, <2>1, <2>2, <3>1
    <3>2. CASE ~(k <= n)
      <4>1. k - n \in 1..(Len(s) - n) /\ n + (k - n) = k
        BY <2>1, <3>2
      <4> QED
        BY <1>1, <2>2, <3>2, <4>1
    <3> QED
      BY <3>1, <3>2
  <2> QED
    BY <2>1, <2>3
<1>3. a \o b = s
  BY <1>2, SeqEqual
<1> QED
  BY <1>1, <1>3 DEF a, b

\* One byte before others
LEMMA OneInTurn ==
    ASSUME NEW a \in Byte, NEW s \in Seq(Byte)
    PROVE  <<a>> \o s \in Seq(Byte)
<1>1. <<a>> \in Seq(Byte)
  OBVIOUS
<1> QED
  BY <1>1, ByteConcat, Zenon

\* Two bytes, one after the other
LEMMA TwoInTurn ==
    ASSUME NEW a \in Byte, NEW b \in Byte, NEW s \in Seq(Byte)
    PROVE  <<a, b>> \o s = <<a>> \o (<<b>> \o s)
<1> DEFINE A == <<a>>
           B == <<b>>
<1>1. A \in Seq(Byte) /\ B \in Seq(Byte)
  OBVIOUS
<1>2. <<a, b>> = A \o B
  <2>1. <<a, b>> = Append(<<a>>, b)
    OBVIOUS
  <2>2. Append(<<a>>, b) = <<a>> \o <<b>>
    BY <1>1, AppendIsConcat, Zenon
  <2> QED
    BY <2>1, <2>2, Zenon
<1>3. <<a>> = A /\ <<b>> = B
  OBVIOUS
<1> HIDE DEF A, B
<1>4. (A \o B) \o s = A \o (B \o s)
  <2>1. Regrouped(A, B, s)
    BY <1>1, Regroup, Zenon
  <2> QED
    BY <2>1, Zenon DEF Regrouped
<1> QED
  BY <1>2, <1>3, <1>4, Zenon

\* Three bytes, one after the other
Threefold(a, b, c, s) == <<a, b, c>> \o s = <<a>> \o (<<b>> \o (<<c>> \o s))

\* Three bytes are one byte after the other.
LEMMA ThreeInTurn ==
    ASSUME NEW a \in Byte, NEW b \in Byte, NEW c \in Byte, NEW s \in Seq(Byte)
    PROVE  Threefold(a, b, c, s)
<1> DEFINE D == <<a, b>>
           C == <<c>>
           E == <<c>> \o s
<1>1. D \in Seq(Byte) /\ C \in Seq(Byte) /\ E \in Seq(Byte)
  BY OneInTurn
<1>2. <<a, b, c>> = D \o C
  <2>1. <<a, b, c>> = Append(<<a, b>>, c)
    OBVIOUS
  <2>2. Append(<<a, b>>, c) = <<a, b>> \o <<c>>
    BY <1>1, AppendIsConcat, Zenon
  <2> QED
    BY <2>1, <2>2, Zenon
<1>3. <<a, b>> = D /\ <<c>> = C /\ <<c>> \o s = E
  OBVIOUS
<1> HIDE DEF C, D, E
<1>4. (D \o C) \o s = D \o (C \o s)
  <2>1. Regrouped(D, C, s)
    BY <1>1, Regroup, Zenon
  <2> QED
    BY <2>1, Zenon DEF Regrouped
<1>5. <<a, b>> \o E = <<a>> \o (<<b>> \o E)
  BY <1>1, TwoInTurn, Zenon
<1> QED
  BY <1>2, <1>3, <1>4, <1>5, Zenon DEF Threefold

\* The quotient of a number that two digits can hold is a digit.
LEMMA HighDigit ==
    ASSUME NEW m \in Nat \ {0}, NEW n \in Nat, n < m * m
    PROVE  n \div m \in 0..(m - 1)
OBVIOUS

\* A number and its digits
LEMMA Digits ==
    ASSUME NEW m \in Nat \ {0}, NEW n \in Nat
    PROVE  (n \div m) * m + (n % m) = n
OBVIOUS

\* The end of a data frame
DataEnd == <<ESC, DEFAULT>>

\* What is left of a data frame, by its first byte
LEMMA DataLeft ==
    ASSUME NEW s \in Seq(Byte)
    PROVE  /\ s = <<>> => EscapePayload(s) \o DataEnd = <<ESC>> \o <<DEFAULT>>
           /\ s # <<>> =>
                  /\ Head(s) \in Byte /\ Tail(s) \in Seq(Byte)
                  /\ EscapePayload(Tail(s)) \o DataEnd \in Seq(Byte)
                  /\ Head(s) = ESC =>
                        EscapePayload(s) \o DataEnd
                            = <<ESC>> \o (<<ESC>> \o (EscapePayload(Tail(s)) \o DataEnd))
                  /\ Head(s) # ESC =>
                        EscapePayload(s) \o DataEnd
                            = <<Head(s)>> \o (EscapePayload(Tail(s)) \o DataEnd)
<1>1. ESC \in Byte /\ DEFAULT \in Byte
  BY ProtocolBytes
<1>2. DataEnd \in Seq(Byte) /\ DataEnd = <<ESC>> \o <<DEFAULT>>
  <2>1. DataEnd = Append(<<ESC>>, DEFAULT) /\ <<ESC>> \in Seq(Byte)
    BY <1>1 DEF DataEnd
  <2>2. Append(<<ESC>>, DEFAULT) = <<ESC>> \o <<DEFAULT>>
    BY <1>1, <2>1, AppendIsConcat, Zenon
  <2>3. DataEnd \in Seq(Byte)
    BY <1>1 DEF DataEnd
  <2> QED
    BY <2>1, <2>2, <2>3, Zenon
<1>3. ASSUME s = <<>> PROVE EscapePayload(s) \o DataEnd = <<ESC>> \o <<DEFAULT>>
  <2>1. <<>> \o DataEnd = DataEnd
    BY <1>2
  <2> QED
    BY <1>2, <1>3, <2>1, EscapeEmpty, Zenon
<1>4. ASSUME s # <<>>
      PROVE  /\ Head(s) \in Byte /\ Tail(s) \in Seq(Byte)
             /\ EscapePayload(Tail(s)) \o DataEnd \in Seq(Byte)
             /\ Head(s) = ESC =>
                   EscapePayload(s) \o DataEnd
                       = <<ESC>> \o (<<ESC>> \o (EscapePayload(Tail(s)) \o DataEnd))
             /\ Head(s) # ESC =>
                   EscapePayload(s) \o DataEnd
                       = <<Head(s)>> \o (EscapePayload(Tail(s)) \o DataEnd)
  <2> DEFINE e == EscapePayload(Tail(s))
             r == e \o DataEnd
             c == Coded(Head(s))
  <2>1. Head(s) \in Byte /\ Tail(s) \in Seq(Byte) /\ EscapePayload(s) = c \o e
    BY <1>4, EscapeFirst
  <2>2. e \in Seq(Byte) /\ c \in Seq(Byte)
    BY <2>1, EscapeIs, CodedType
  <2>3. r \in Seq(Byte)
    BY <1>2, <2>2, ByteConcat, Zenon
  <2>4. EscapePayload(s) \o DataEnd = c \o r
    <3> HIDE DEF e, c
    <3>1. (c \o e) \o DataEnd = c \o (e \o DataEnd)
      <4>1. Regrouped(c, e, DataEnd)
        BY <1>2, <2>2, Regroup, Zenon
      <4> QED
        BY <4>1, Zenon DEF Regrouped
    <3> QED
      BY <2>1, <3>1, Zenon
  <2>5. ASSUME Head(s) = ESC PROVE c \o r = <<ESC>> \o (<<ESC>> \o r)
    <3>1. c = <<ESC, ESC>>
      BY <2>5 DEF Coded
    <3> HIDE DEF r, c
    <3>2. <<ESC, ESC>> \o r = <<ESC>> \o (<<ESC>> \o r)
      BY <1>1, <2>3, TwoInTurn, Zenon
    <3> QED
      BY <3>1, <3>2, Zenon
  <2>6. ASSUME Head(s) # ESC PROVE c \o r = <<Head(s)>> \o r
    <3>1. c = <<Head(s)>>
      BY <2>6 DEF Coded
    <3> HIDE DEF r, c
    <3> QED
      BY <3>1, Zenon
  <2> QED
    BY <2>1, <2>3, <2>4, <2>5, <2>6, Zenon
<1> QED
  BY <1>3, <1>4, Zenon

-----------------------------------------------------------------------------
(* The invariant.                                                          *)

USE ByteMaxAssumption, ControlTypesAssumption, MaxPtyAssumption, OuterAssumption

\* The part of TypeOK about the table of streams.
TableType ==
    /\ tags \in [PtyIdx -> Tag]
    /\ num_proc \in BuiltinCount..MaxPty
    /\ opened \subseteq PtyIdx
    /\ threads \subseteq PtyIdx

\* The built-in streams have no ID, the others have one; every registered
\* stream has its PTY.
TableShape ==
    /\ \A i \in Registered : (tags[i].value = 0) <=> (i < BuiltinCount)
    /\ Registered \subseteq opened

\* A stream with input came with a registry: it has an ID that framing can
\* select, and its thread.
InputShape ==
    \A i \in Registered : (i >= BuiltinCount /\ tags[i].input) =>
        tags[i].value \in ValidStreamId /\ i \in threads

\* PTYs and threads belong to registered streams, unless their stream was rolled
\* back with the registry that ended the tty thread.
AllRegistered == opened \cup threads \subseteq Registered

TableInv == TableType /\ TableShape /\ DistinctStreamIds /\ InputShape

\* The part of the invariant that holds whoever starts threads.
DemuxInv == TypeOK /\ TableInv /\ (alive => AllRegistered) /\ CursorIsOpenStream

IInv == DemuxInv /\ ThreadsOnlyForInput

\* What no step does to the table.
TableGrows ==
    /\ num_proc' >= num_proc
    /\ \A i \in Registered : tags'[i] = tags[i]
    /\ threads \subseteq threads' /\ opened \subseteq opened'

-----------------------------------------------------------------------------
(* Writing a byte.                                                         *)

\* o2 has everything o has.
Extends(o, o2) == \A j \in PtyIdx : IsPrefix(o[j], o2[j])

\* flush_stream only adds to the output of a PTY.
LEMMA PutExtends ==
    ASSUME NEW o \in [PtyIdx -> Seq(Byte)], NEW i \in PtyIdx, NEW ch \in Byte
    PROVE  /\ Put(o, i, ch) \in [PtyIdx -> Seq(Byte)]
           /\ Extends(o, Put(o, i, ch))
BY DEF Put, Extends, IsPrefix

\* Every output has what it has.
LEMMA ExtendsItself ==
    ASSUME NEW o \in [PtyIdx -> Seq(Byte)]
    PROVE  Extends(o, o)
BY DEF Extends, IsPrefix

\* Adding twice is adding: the mirror to raw_ccplex, then the stream.
LEMMA ExtendsTransitive ==
    ASSUME NEW o \in [PtyIdx -> Seq(Byte)], NEW p \in [PtyIdx -> Seq(Byte)],
           NEW q \in [PtyIdx -> Seq(Byte)], Extends(o, p), Extends(p, q)
    PROVE  Extends(o, q)
<1> SUFFICES ASSUME NEW j \in PtyIdx PROVE IsPrefix(o[j], q[j])
    BY DEF Extends
<1>1. o[j] \in Seq(Byte) /\ p[j] \in Seq(Byte) /\ q[j] \in Seq(Byte)
    OBVIOUS
<1>2. IsPrefix(o[j], p[j]) /\ IsPrefix(p[j], q[j])
    BY DEF Extends
<1>3. \A k \in 1..Len(o[j]) : o[j][k] = p[j][k]
    BY <1>1, <1>2 DEF IsPrefix
<1>4. \A k \in 1..Len(p[j]) : p[j][k] = q[j][k]
    BY <1>1, <1>2 DEF IsPrefix
<1> QED
    BY <1>1, <1>2, <1>3, <1>4 DEF IsPrefix

\* What flush_stream leaves, whether or not it succeeds.
LEMMA FlushExtends ==
    ASSUME NEW o \in [PtyIdx -> Seq(Byte)], NEW i \in PtyIdx, NEW ch \in Byte,
           FlushStream(o, i, ch)
    PROVE  out' \in [PtyIdx -> Seq(Byte)] /\ Extends(o, out') /\ alive' \in BOOLEAN
BY PutExtends, ExtendsItself DEF FlushStream

-----------------------------------------------------------------------------
(* The table of streams.                                                   *)

\* A CONNECTED record, applied or dropped, keeps the table in order.
LEMMA ConnectedKeepsTable ==
    ASSUME TableInv, AllRegistered,
           NEW id \in Byte, NEW name \in Seq(Byte), ApplyConnected(id, name)
    PROVE  /\ TableInv' /\ TableGrows /\ AllRegistered'
           /\ ThreadsOnlyForInput => ThreadsOnlyForInput'
<1>1. CASE UNCHANGED table
    BY <1>1 DEF TableInv, TableType, TableShape, DistinctStreamIds, InputShape, AllRegistered,
                ThreadsOnlyForInput, TableGrows, table, Registered
<1>2. CASE ~UNCHANGED table
  <2>1. /\ ~Known(id) /\ num_proc < MaxPty
        /\ tags' = [tags EXCEPT ![num_proc] = [name |-> name, value |-> id, input |-> FALSE]]
        /\ num_proc' = num_proc + 1
        /\ opened' = opened \cup {num_proc}
        /\ threads' = threads
      BY <1>2 DEF ApplyConnected, TableFull, TableInv, TableType, BuiltinCount
  <2>2. TableType' /\ TableGrows
      BY <2>1 DEF TableInv, TableType, Tag, PtyIdx, BuiltinCount, TableGrows, Registered
  <2>3. id # 0
      BY <2>1 DEF Known, TableInv, TableType, TableShape, Registered, BuiltinCount
  <2>4. TableShape'
      BY <2>1, <2>2, <2>3 DEF TableInv, TableType, TableShape, TableGrows, Registered,
                              BuiltinCount, PtyIdx
  <2>5. DistinctStreamIds'
      BY <2>1 DEF TableInv, TableType, DistinctStreamIds, Known, Registered, BuiltinCount, PtyIdx
  <2>6. AllRegistered'
      BY <2>1 DEF AllRegistered, TableInv, TableType, Registered, BuiltinCount
  <2>7. Registered' = Registered \cup {num_proc} /\ num_proc \notin Registered
        /\ tags'[num_proc].input = FALSE
      BY <2>1 DEF TableInv, TableType, Registered, BuiltinCount, PtyIdx
  <2>8. num_proc \notin threads
      BY <2>7 DEF AllRegistered
  <2>9. ThreadsOnlyForInput => ThreadsOnlyForInput'
      BY <2>1, <2>2, <2>7, <2>8 DEF ThreadsOnlyForInput, TableGrows
  <2>10. InputShape'
      BY <2>1, <2>2, <2>7 DEF TableInv, InputShape, TableGrows
  <2> QED
      BY <2>2, <2>4, <2>5, <2>6, <2>9, <2>10 DEF TableInv
<1> QED BY <1>1, <1>2

\* A sequence that is not empty has a length of at least one.
LEMMA NonEmptyLen ==
    ASSUME NEW S, NEW s \in Seq(S), s # <<>>
    PROVE  Len(s) \in Nat /\ Len(s) > 0
OBVIOUS

\* An element of a sequence over S is in S.
LEMMA ElementOfSequence ==
    ASSUME NEW S, NEW s \in Seq(S), NEW k \in 1..Len(s)
    PROVE  s[k] \in S
OBVIOUS

\* A registry, applied or rolled back, keeps the table in order.
LEMMA RegistryKeepsTable ==
    ASSUME TableInv, AllRegistered,
           NEW text \in Seq(Byte), ApplyRegistry(text)
    PROVE  /\ TableInv' /\ TableGrows
           /\ ThreadsOnlyForInput => ThreadsOnlyForInput'
           /\ alive' \in BOOLEAN
           /\ alive' => AllRegistered'
<1> DEFINE streams == ListedStreams(text)
           good    == WellFormedRegistry(text) /\ RegistryAcceptable(streams)
           count   == num_proc + Len(streams)
           W       == WithStreams(streams)
           new(limit) == [i \in num_proc..(limit - 1) |-> W[i]]
<1>1. CASE ~good
  <2>1. UNCHANGED table
      BY <1>1 DEF ApplyRegistry, Rollback, table
  <2>2. alive' = FALSE
      BY <1>1 DEF ApplyRegistry
  <2>3. TableInv' /\ TableGrows /\ (ThreadsOnlyForInput => ThreadsOnlyForInput')
      BY <2>1 DEF TableInv, TableType, TableShape, DistinctStreamIds, InputShape,
                  ThreadsOnlyForInput, TableGrows, table, Registered
  <2> QED BY <2>2, <2>3
<1>2. CASE good
  <2>1. /\ streams \in Seq([id: ValidStreamId, name: Seq(Byte), input: BOOLEAN])
        /\ streams # <<>>
        /\ num_proc + Len(streams) <= MaxPty
        /\ \A k \in 1..Len(streams) :
              /\ \A i \in Registered : tags[i].value # streams[k].id
              /\ \A j \in 1..(k - 1) : streams[j].id # streams[k].id
      BY <1>2 DEF RegistryAcceptable, TableFull, Fresh, TableInv, TableType, BuiltinCount
  <2> HIDE DEF streams
  <2>2. Len(streams) \in Nat /\ count \in BuiltinCount..MaxPty /\ num_proc \in BuiltinCount..MaxPty
      BY <2>1 DEF TableInv, TableType, BuiltinCount
  <2>a. \A k \in 1..Len(streams) :
           /\ NewTag(streams[k]) \in Tag
           /\ NewTag(streams[k]).value = streams[k].id
           /\ streams[k].id \in ValidStreamId
    <3> SUFFICES ASSUME NEW k \in 1..Len(streams)
                 PROVE  /\ NewTag(streams[k]) \in Tag
                        /\ NewTag(streams[k]).value = streams[k].id
                        /\ streams[k].id \in ValidStreamId
        OBVIOUS
    <3>1. streams[k] \in [id: ValidStreamId, name: Seq(Byte), input: BOOLEAN]
        BY <2>1, ElementOfSequence
    <3>2. ValidStreamId \subseteq Byte
        BY DEF ValidStreamId, Byte
    <3> QED BY <3>1, <3>2 DEF NewTag, Tag
  <2>b. \A i \in num_proc..(count - 1) : i \in PtyIdx /\ i - num_proc + 1 \in 1..Len(streams)
      BY <2>2 DEF PtyIdx, BuiltinCount
  <2>c. \A i \in PtyIdx : W[i] = IF i \in num_proc..(count - 1)
                                 THEN NewTag(streams[i - num_proc + 1]) ELSE tags[i]
      BY <2>2 DEF WithStreams, PtyIdx, BuiltinCount
  <2>d. W \in [PtyIdx -> Tag]
    <3>1. W = [i \in PtyIdx |-> W[i]]
        BY DEF WithStreams
    <3>2. \A i \in PtyIdx : W[i] \in Tag
        BY <2>a, <2>b, <2>c DEF TableInv, TableType
    <3> HIDE DEF W
    <3> QED BY <3>1, <3>2
  <2> HIDE DEF W
  <2>3. /\ \A i \in Registered : W[i] = tags[i]
        /\ \A i \in num_proc..(count - 1) :
              /\ W[i].value = streams[i - num_proc + 1].id
              /\ W[i].value \in ValidStreamId
      BY <2>2, <2>a, <2>b, <2>c, SMTT(30) DEF PtyIdx, Registered, BuiltinCount
  <2>4. CASE alive'
    <3>1. /\ tags' = W /\ num_proc' = count
          /\ opened' = opened \cup (num_proc..(count - 1))
          /\ threads' = threads \cup InputThreads(new(count))
        BY <1>2, <2>4 DEF ApplyRegistry, streams, W
    <3>a. alive' = TRUE
        BY <1>2, <2>4 DEF ApplyRegistry
    <3>2. InputThreads(new(count)) = {i \in num_proc..(count - 1) : W[i].input}
        BY DEF InputThreads
    <3>3. TableType' /\ TableGrows
        BY <2>2, <2>b, <2>d, <2>3, <3>1, <3>2, SMTT(30) DEF TableInv, TableType, TableGrows
    <3>r. Registered' = Registered \cup (num_proc..(count - 1))
        BY <2>2, <3>1 DEF Registered, BuiltinCount
    <3>4. TableShape'
      <4>1. \A i \in num_proc..(count - 1) : W[i].value # 0 /\ ~(i < BuiltinCount)
          BY <2>2, <2>3 DEF ValidStreamId, BuiltinCount
      <4> QED BY <2>3, <3>1, <3>r, <4>1 DEF TableInv, TableShape
    <3>5. DistinctStreamIds'
      <4>1. \A i, j \in num_proc..(count - 1) : i < j => W[i].value # W[j].value
        <5> SUFFICES ASSUME NEW i \in num_proc..(count - 1), NEW j \in num_proc..(count - 1),
                            i < j
                     PROVE  streams[i - num_proc + 1].id # streams[j - num_proc + 1].id
            BY <2>3
        <5>1. /\ j - num_proc + 1 \in 1..Len(streams)
              /\ i - num_proc + 1 \in 1..((j - num_proc + 1) - 1)
            BY <2>2 DEF BuiltinCount
        <5> QED BY <2>1, <5>1
      <4>2. \A i \in Registered, j \in num_proc..(count - 1) : tags[i].value # W[j].value
          BY <2>1, <2>b, <2>3
      <4>3. \A i, j \in num_proc..(count - 1) : i # j => W[i].value # W[j].value
          BY <2>2, <4>1 DEF BuiltinCount
      <4> QED BY <2>3, <3>1, <3>r, <4>2, <4>3 DEF TableInv, DistinctStreamIds
    <3>6. AllRegistered' /\ (ThreadsOnlyForInput => ThreadsOnlyForInput')
        BY <2>3, <3>1, <3>2, <3>r DEF ThreadsOnlyForInput, AllRegistered
    <3>7. InputShape'
        BY <2>3, <3>1, <3>2, <3>r DEF TableInv, InputShape
    <3> QED BY <3>a, <3>3, <3>4, <3>5, <3>6, <3>7 DEF TableInv
  <2>5. CASE ~alive'
    <3>1. tags' = tags /\ num_proc' = num_proc
        BY <1>2, <2>5 DEF ApplyRegistry, Rollback, streams
    <3>a. alive' = FALSE
        BY <1>2, <2>5 DEF ApplyRegistry
    <3>2. PICK failed \in num_proc..(count - 1) :
             /\ opened' = opened \cup (num_proc..(failed - 1))
             /\ threads' = threads \cup InputThreads(new(failed))
      <4>1. CASE /\ opened' = opened /\ threads' = threads
        <5>1. num_proc \in num_proc..(count - 1)
            BY <2>1, <2>2, NonEmptyLen DEF BuiltinCount
        <5>2. num_proc..(num_proc - 1) = {}
            BY <2>2 DEF BuiltinCount
        <5>3. InputThreads(new(num_proc)) = {}
            BY <5>2 DEF InputThreads
        <5> QED BY <4>1, <5>1, <5>2, <5>3
      <4>2. CASE ~(opened' = opened /\ threads' = threads)
          BY <1>2, <2>5, <4>2 DEF ApplyRegistry, streams, W
      <4> QED BY <4>1, <4>2
    <3>3. InputThreads(new(failed)) \subseteq num_proc..(failed - 1)
        BY DEF InputThreads
    <3>4. TableType' /\ TableGrows
      <4>1. num_proc..(failed - 1) \subseteq PtyIdx
          BY <2>2, <3>2 DEF PtyIdx, BuiltinCount
      <4> QED BY <2>2, <3>1, <3>2, <3>3, <4>1, SMTT(30) DEF TableInv, TableType, TableGrows, BuiltinCount
    <3>5. TableShape' /\ DistinctStreamIds'
        BY <3>1, <3>2 DEF TableInv, TableShape, DistinctStreamIds, Registered
    <3>6. ThreadsOnlyForInput => ThreadsOnlyForInput'
        BY <2>2, <3>1, <3>2, <3>3 DEF ThreadsOnlyForInput, Registered, BuiltinCount
    <3>7. InputShape'
        BY <3>1, <3>2 DEF TableInv, InputShape, Registered
    <3> QED BY <3>a, <3>4, <3>5, <3>6, <3>7 DEF TableInv
  <2> QED BY <2>4, <2>5
<1> QED BY <1>1, <1>2

-----------------------------------------------------------------------------
(* One byte of the inner protocol.                                         *)

\* The parts of TypeOK beside the table.
ControlType ==
    /\ control_state \in ControlStates
    /\ control_registry_len \in Nat
    /\ control_registry_json \in Seq(Byte)
    /\ pending_ctrl_type \in Byte
    /\ virtioso_registry_json \in Seq(Byte)
    /\ downlink_ack_count \in Nat

OuterType == outer_in_escape \in BOOLEAN /\ cur_outer_tag \in ChipTags \cup {-1}

CursorType == cur_rx_stream \in PtyIdx \cup {-1}

OutType == out \in [PtyIdx -> Seq(Byte)]

\* TypeOK in parts.
LEMMA TypeParts ==
    TypeOK <=> /\ ControlType /\ OuterType /\ CursorType /\ OutType /\ TableType
               /\ in_escape \in BOOLEAN /\ alive \in BOOLEAN
BY DEF TypeOK, ControlType, OuterType, CursorType, OutType, TableType

\* The table stays in order, and PTYs and threads belong to registered streams
\* for as long as the tty thread runs.
TableStep ==
    /\ TableInv' /\ TableGrows
    /\ ThreadsOnlyForInput => ThreadsOnlyForInput'
    /\ alive' => AllRegistered'

\* A step that leaves the table alone.
LEMMA TableUnchanged ==
    ASSUME TableInv, AllRegistered, UNCHANGED table
    PROVE  TableStep
<1>1. TableInv' /\ TableGrows /\ (ThreadsOnlyForInput => ThreadsOnlyForInput')
    BY DEF TableInv, TableType, TableShape, DistinctStreamIds, InputShape, ThreadsOnlyForInput,
           TableGrows, table, Registered
<1>2. AllRegistered'
    BY DEF table, Registered, AllRegistered
<1> QED BY <1>1, <1>2 DEF TableStep

\* An index of a table is an index of a larger one.
LEMMA LargerInterval ==
    ASSUME NEW m \in Nat, NEW n \in Nat, n >= m, NEW i \in 0..(m - 1)
    PROVE  i \in 0..(n - 1)
OBVIOUS

\* Whatever a byte does to the table, a cursor that does not move stays on an
\* open stream.
LEMMA CursorSurvives ==
    ASSUME CursorType, TableInv, TableInv', TableGrows, CursorIsOpenStream,
           cur_rx_stream' = cur_rx_stream
    PROVE  CursorType' /\ CursorIsOpenStream'
<1>1. CursorType'
    BY DEF CursorType
<1>2. ASSUME cur_rx_stream >= 0 PROVE CursorIsOpenStream'
  <2>1. cur_rx_stream \in Registered
      BY <1>2 DEF CursorIsOpenStream
  <2>2. cur_rx_stream \in Registered'
    <3>1. num_proc \in Nat /\ num_proc' \in Nat /\ num_proc' >= num_proc
        BY DEF TableGrows, TableInv, TableType, BuiltinCount
    <3>2. cur_rx_stream \in 0..(num_proc - 1)
        BY <2>1 DEF Registered
    <3>3. cur_rx_stream \in 0..(num_proc' - 1)
        BY <3>1, <3>2, LargerInterval
    <3> QED BY <3>3 DEF Registered
  <2>3. cur_rx_stream \in opened'
      BY <2>2 DEF TableInv, TableShape
  <2> QED
      BY <1>2, <2>1, <2>2, <2>3 DEF CursorIsOpenStream, TableGrows
<1> QED
    BY <1>1, <1>2 DEF CursorIsOpenStream

\* What is known before the byte.
LEMMA BeforeByte ==
    ASSUME DemuxInv, alive
    PROVE  /\ ControlType /\ CursorType /\ OutType /\ TableInv /\ CursorIsOpenStream
           /\ in_escape \in BOOLEAN /\ alive = TRUE /\ AllRegistered
BY TypeParts DEF DemuxInv

\* What has to be shown after it.
LEMMA AfterByte ==
    ASSUME ControlType', OuterType', CursorType', OutType', in_escape' \in BOOLEAN,
           alive' \in BOOLEAN, TableStep, CursorIsOpenStream'
    PROVE  DemuxInv' /\ TableStep
<1>1. TypeOK' <=> /\ ControlType' /\ OuterType' /\ CursorType' /\ OutType' /\ TableType'
                  /\ in_escape' \in BOOLEAN /\ alive' \in BOOLEAN
    BY DEF TypeOK, ControlType, OuterType, CursorType, OutType, TableType
<1> QED BY <1>1 DEF DemuxInv, TableStep, TableInv

\* feed_virtioso_byte keeps the invariant, and only extends table and output.
LEMMA InnerStep ==
    ASSUME DemuxInv, alive, OuterType', NEW ch \in Byte, NEW o \in [PtyIdx -> Seq(Byte)],
           FeedVirtiosoByte(ch, o)
    PROVE  DemuxInv' /\ TableStep /\ Extends(o, out')
<1> USE BeforeByte
<1>0. UNCHANGED table => TableStep
    BY TableUnchanged
<1>c. TableStep /\ cur_rx_stream' = cur_rx_stream => CursorType' /\ CursorIsOpenStream'
    BY CursorSurvives DEF TableStep
<1>o. out' = o => OutType' /\ Extends(o, out')
    BY ExtendsItself DEF OutType
<1>1. CASE ControlCommand(ch, o)
  <2>1. ControlType'
      BY <1>1 DEF ControlCommand, ControlType, ControlStates
  <2>2. UNCHANGED <<table, alive, in_escape, cur_rx_stream>> /\ out' = o
      BY <1>1 DEF ControlCommand, parser
  <2> QED BY <2>1, <2>2, <1>0, <1>c, <1>o, AfterByte
<1>2. CASE ControlLenHi(ch, o)
  <2>1. ControlType'
      BY <1>2 DEF ControlLenHi, ControlType, ControlStates, Byte
  <2>2. UNCHANGED <<table, alive, in_escape, cur_rx_stream>> /\ out' = o
      BY <1>2 DEF ControlLenHi, parser
  <2> QED BY <2>1, <2>2, <1>0, <1>c, <1>o, AfterByte
<1>3. CASE ControlLenLo(ch, o)
  <2>1. ControlType'
      BY <1>3 DEF ControlLenLo, ControlType, ControlStates, Byte
  <2>2. UNCHANGED <<table, alive, in_escape, cur_rx_stream>> /\ out' = o
      BY <1>3 DEF ControlLenLo, parser
  <2> QED BY <2>1, <2>2, <1>0, <1>c, <1>o, AfterByte
<1>4. CASE ControlPayload(ch, o)
  <2>1. ControlType'
      BY <1>4 DEF ControlPayload, ControlType
  <2>2. UNCHANGED <<table, alive, in_escape, cur_rx_stream>> /\ out' = o
      BY <1>4 DEF ControlPayload, parser
  <2> QED BY <2>1, <2>2, <1>0, <1>c, <1>o, AfterByte
<1>5. CASE ControlRegistry(ch, o)
  <2>1. Append(control_registry_json, ch) \in Seq(Byte)
      BY DEF ControlType
  <2>2. ControlType'
    <3>1. control_state' = "IDLE" \/ control_state' = control_state
        BY <1>5 DEF ControlRegistry
    <3>2. control_state' \in ControlStates
        BY <3>1 DEF ControlType, ControlStates
    <3>3. virtioso_registry_json' \in Seq(Byte)
        BY <1>5, <2>1 DEF ControlRegistry, ControlType
    <3> QED BY <1>5, <3>2, <3>3 DEF ControlRegistry, ControlType
  <2>3. UNCHANGED <<in_escape, cur_rx_stream>> /\ out' = o
      BY <1>5 DEF ControlRegistry, parser
  <2>4. CASE UNCHANGED <<table, alive>>
      BY <2>2, <2>3, <2>4, <1>0, <1>c, <1>o, AfterByte
  <2>5. CASE ApplyRegistry(Append(control_registry_json, ch))
    <3>1. TableStep /\ alive' \in BOOLEAN
        BY <2>1, <2>5, RegistryKeepsTable DEF TableStep
    <3> QED BY <3>1, <2>2, <2>3, <1>c, <1>o, AfterByte
  <2> QED BY <1>5, <2>4, <2>5 DEF ControlRegistry
<1>6. CASE ControlAnnounce(ch, o)
  <2> DEFINE p == Append(control_registry_json, ch)
  <2>1. Head(p) \in Byte /\ Tail(p) \in Seq(Byte)
    <3>1. control_registry_json \in Seq(Byte)
        BY DEF ControlType
    <3>2. p \in Seq(Byte) /\ Len(p) = Len(control_registry_json) + 1
        BY <3>1
    <3>3. Len(p) \in Nat /\ Len(p) > 0
        BY <3>1, <3>2
    <3> HIDE DEF p
    <3> QED BY <3>2, <3>3
  <2>2. ControlType'
      BY <1>6 DEF ControlAnnounce, ControlType, ControlStates
  <2>3. UNCHANGED <<alive, in_escape, cur_rx_stream>> /\ out' = o
      BY <1>6 DEF ControlAnnounce, parser
  <2>4. CASE UNCHANGED table
      BY <2>2, <2>3, <2>4, <1>0, <1>c, <1>o, AfterByte
  <2>5. CASE ApplyConnected(Head(p), Tail(p))
    <3>1. TableStep
        BY <2>1, <2>5, ConnectedKeepsTable DEF TableStep
    <3> QED BY <3>1, <2>2, <2>3, <1>c, <1>o, AfterByte
  <2> QED BY <1>6, <2>4, <2>5 DEF ControlAnnounce
<1>7. CASE EscapeStart(ch, o)
  <2>1. UNCHANGED <<table, alive, cur_rx_stream>> /\ out' = o /\ in_escape' = TRUE
      BY <1>7 DEF EscapeStart
  <2>2. ControlType'
      BY <1>7 DEF EscapeStart, ControlType, control
  <2> QED BY <2>1, <2>2, <1>0, <1>c, <1>o, AfterByte
<1>8. CASE EscapeDefault(ch, o)
  <2>1. UNCHANGED <<table, alive>> /\ out' = o /\ in_escape' = FALSE /\ cur_rx_stream' = -1
      BY <1>8 DEF EscapeDefault, NoStream
  <2>2. ControlType'
      BY <1>8 DEF EscapeDefault, ControlType, control
  <2>3. CursorType' /\ CursorIsOpenStream'
      BY <2>1 DEF CursorType, CursorIsOpenStream
  <2> QED BY <2>1, <2>2, <2>3, <1>0, <1>o, AfterByte
<1>9. CASE EscapeEscape(ch, o)
  <2>1. UNCHANGED <<table, cur_rx_stream>> /\ in_escape' = FALSE
      BY <1>9 DEF EscapeEscape
  <2>2. ControlType'
      BY <1>9 DEF EscapeEscape, ControlType, control
  <2>3. OutType' /\ Extends(o, out') /\ alive' \in BOOLEAN
    <3>1. CASE cur_rx_stream >= 0 /\ FlushStream(o, cur_rx_stream, ch)
      <4>1. cur_rx_stream \in PtyIdx
          BY <3>1 DEF CursorType
      <4> QED BY <3>1, <4>1, FlushExtends DEF OutType
    <3>2. CASE out' = o /\ UNCHANGED alive
        BY <3>2, <1>o
    <3> QED BY <1>9, <3>1, <3>2 DEF EscapeEscape
  <2> QED BY <2>1, <2>2, <2>3, <1>0, <1>c, AfterByte
<1>10. CASE EscapeControl(ch, o)
  <2>1. UNCHANGED <<table, alive, cur_rx_stream>> /\ out' = o /\ in_escape' = FALSE
      BY <1>10 DEF EscapeControl
  <2>2. ControlType'
      BY <1>10 DEF EscapeControl, ControlType, ControlStates
  <2> QED BY <2>1, <2>2, <1>0, <1>c, <1>o, AfterByte
<1>11. CASE EscapeStream(ch, o)
  <2>1. UNCHANGED <<table, alive>> /\ out' = o /\ in_escape' = FALSE
      BY <1>11 DEF EscapeStream
  <2>2. ControlType'
      BY <1>11 DEF EscapeStream, ControlType, control
  <2>3. CursorType' /\ CursorIsOpenStream'
    <3>1. CASE cur_rx_stream' = NoStream
        BY <3>1 DEF CursorType, CursorIsOpenStream, NoStream
    <3>2. CASE \E i \in Registered : IsPtyOf(i, ch) /\ cur_rx_stream' = i
      <4>1. PICK i \in Registered : tags[i].value = ch /\ cur_rx_stream' = i
          BY <3>2 DEF IsPtyOf
      <4>2. ch \in ValidStreamId
          BY <1>11 DEF EscapeStream, ValidStreamId, Byte, DEFAULT
      <4>3. i \in opened /\ i \in PtyIdx /\ i >= BuiltinCount
        <5>1. ch # 0 /\ num_proc \in 3..MaxPty
            BY <4>2 DEF ValidStreamId, TableInv, TableType, BuiltinCount
        <5>2. i \in opened /\ ~(i < BuiltinCount)
            BY <4>1, <5>1 DEF TableInv, TableShape
        <5> QED BY <5>1, <5>2 DEF Registered, PtyIdx, BuiltinCount
      <4> QED BY <2>1, <4>1, <4>2, <4>3 DEF CursorType, CursorIsOpenStream, Registered, table
    <3> QED BY <1>11, <3>1, <3>2 DEF EscapeStream
  <2> QED BY <2>1, <2>2, <2>3, <1>0, <1>o, AfterByte
<1>12. CASE Payload(ch, o)
  <2> DEFINE i == IF cur_rx_stream < 0 THEN PHYSICAL_UART_DEFAULT ELSE cur_rx_stream
  <2>1. UNCHANGED <<table, in_escape, cur_rx_stream>>
      BY <1>12 DEF Payload, parser
  <2>2. ControlType'
      BY <1>12 DEF Payload, ControlType, control
  <2>3. i \in PtyIdx
    <3>1. CursorType
        OBVIOUS
    <3> QED BY <3>1 DEF CursorType, PtyIdx, PHYSICAL_UART_DEFAULT
  <2>4. OutType' /\ Extends(o, out') /\ alive' \in BOOLEAN
      BY <1>12, <2>3, FlushExtends DEF Payload, OutType
  <2> QED BY <2>1, <2>2, <2>4, <1>0, <1>c, AfterByte
<1> QED
    BY <1>1, <1>2, <1>3, <1>4, <1>5, <1>6, <1>7, <1>8, <1>9, <1>10, <1>11, <1>12
    DEF FeedVirtiosoByte

-----------------------------------------------------------------------------
(* One byte of the link.                                                   *)

\* Mirroring a byte to raw_ccplex and parsing it keeps the invariant.
LEMMA MirrorStep ==
    ASSUME DemuxInv, alive, OuterType', NEW ch \in Byte, MirrorAndFeed(ch)
    PROVE  DemuxInv' /\ TableStep /\ Extends(out, out')
<1> USE BeforeByte
<1>1. /\ out \in [PtyIdx -> Seq(Byte)]
      /\ Mirrored(ch) \in [PtyIdx -> Seq(Byte)]
      /\ Extends(out, Mirrored(ch)) /\ Extends(out, out)
  <2>1. RAW_CCPLEX \in PtyIdx
      BY DEF RAW_CCPLEX, PtyIdx
  <2>2. out \in [PtyIdx -> Seq(Byte)]
      BY DEF OutType
  <2> QED BY <2>1, <2>2, PutExtends, ExtendsItself DEF Mirrored
<1>2. CASE FeedVirtiosoByte(ch, Mirrored(ch))
  <2>1. DemuxInv' /\ TableStep /\ Extends(Mirrored(ch), out')
      BY <1>1, <1>2, InnerStep
  <2>2. out' \in [PtyIdx -> Seq(Byte)]
      BY <2>1 DEF DemuxInv, TypeOK
  <2> QED BY <1>1, <2>1, <2>2, ExtendsTransitive
<1>3. CASE ~FeedVirtiosoByte(ch, Mirrored(ch))
  <2>1. /\ out' = out \/ out' = Mirrored(ch)
        /\ UNCHANGED <<table, in_escape, cur_rx_stream>>
      BY <1>3 DEF MirrorAndFeed, parser
  <2>2. alive' = FALSE
      BY <1>3 DEF MirrorAndFeed
  <2>3. ControlType'
      BY <1>3 DEF MirrorAndFeed, ControlType, control
  <2>4. OutType' /\ Extends(out, out')
      BY <1>1, <2>1 DEF OutType
  <2>5. TableStep
      BY <2>1, TableUnchanged
  <2>6. CursorType' /\ CursorIsOpenStream'
      BY <2>1, <2>5, CursorSurvives DEF TableStep
  <2> QED BY <2>1, <2>2, <2>3, <2>4, <2>5, <2>6, AfterByte
<1> QED BY <1>2, <1>3

\* A byte that only concerns the outer layer keeps the invariant.
LEMMA OuterStep ==
    ASSUME DemuxInv, alive, OuterType', UnchangedInner
    PROVE  DemuxInv' /\ TableStep /\ Extends(out, out')
<1> USE BeforeByte
<1>1. UNCHANGED <<table, in_escape, cur_rx_stream, alive, out>>
    BY DEF UnchangedInner, parser
<1>2. ControlType'
    BY DEF UnchangedInner, ControlType, control
<1>3. OutType' /\ Extends(out, out')
    BY <1>1, ExtendsItself DEF OutType
<1>4. TableStep
    BY <1>1, TableUnchanged
<1>5. CursorType' /\ CursorIsOpenStream'
    BY <1>1, <1>4, CursorSurvives DEF TableStep
<1> QED BY <1>1, <1>2, <1>3, <1>4, <1>5, AfterByte

\* Every byte of the link keeps the invariant, and only extends the table and
\* the output.
LEMMA FeedStep ==
    ASSUME DemuxInv, NEW ch \in Byte, Feed(ch)
    PROVE  DemuxInv' /\ TableStep /\ Extends(out, out')
<1> USE BeforeByte
<1>a. alive
    BY DEF Feed
<1>0. OuterType
    BY TypeParts DEF DemuxInv
<1>1. CASE RawByte(ch)
  <2>1. OuterType'
      BY <1>0, <1>1 DEF RawByte, OuterType, outer
  <2> QED BY <1>a, <1>1, <2>1, MirrorStep DEF RawByte
<1>2. CASE OuterPayload(ch)
  <2>1. OuterType'
      BY <1>0, <1>2 DEF OuterPayload, OuterType, outer
  <2> QED BY <1>a, <1>2, <2>1, MirrorStep, OuterStep DEF OuterPayload
<1>3. CASE OuterEscapeStart(ch)
  <2>1. OuterType'
      BY <1>0, <1>3 DEF OuterEscapeStart, OuterType
  <2> QED BY <1>a, <1>3, <2>1, OuterStep DEF OuterEscapeStart
<1>4. CASE OuterEscapeEscape(ch)
  <2>1. OuterType'
      BY <1>0, <1>4 DEF OuterEscapeEscape, OuterType
  <2>2. OUTER_ESC \in Byte /\ out \in [PtyIdx -> Seq(Byte)]
      BY <1>a, <1>4 DEF OuterEscapeEscape, OutType
  <2> QED BY <1>a, <1>4, <2>1, <2>2, InnerStep, OuterStep DEF OuterEscapeEscape
<1>5. CASE OuterReset(ch)
  <2>1. OuterType'
      BY <1>0, <1>5 DEF OuterReset, OuterType
  <2>2. UNCHANGED <<table, alive, out>> /\ in_escape' = FALSE /\ cur_rx_stream' = -1
      BY <1>5 DEF OuterReset, NoStream
  <2>3. ControlType'
      BY <1>a, <1>5 DEF OuterReset, ControlType, control
  <2>4. OutType' /\ Extends(out, out')
      BY <1>a, <2>2, ExtendsItself DEF OutType
  <2>5. TableStep
      BY <1>a, <2>2, TableUnchanged
  <2>6. CursorType' /\ CursorIsOpenStream'
      BY <2>2 DEF CursorType, CursorIsOpenStream
  <2> QED BY <1>a, <2>1, <2>2, <2>3, <2>4, <2>5, <2>6, AfterByte
<1>6. CASE OuterTagSwitch(ch)
  <2>1. OuterType'
      BY <1>0, <1>6 DEF OuterTagSwitch, OuterType
  <2> QED BY <1>a, <1>6, <2>1, OuterStep DEF OuterTagSwitch
<1> QED BY <1>1, <1>2, <1>3, <1>4, <1>5, <1>6 DEF Feed

-----------------------------------------------------------------------------
(* The theorems.                                                           *)

\* The state main leaves satisfies the invariant.
LEMMA InitIInv == Init => IInv
<1> SUFFICES ASSUME Init PROVE IInv
    OBVIOUS
<1> USE DEF Init, InitTty, BuiltinCount
<1>1. TableType
  <2>1. \A i \in 0..2 : BuiltinTag(i) \in Tag
      BY DEF BuiltinTag, Tag, Byte
  <2>2. NoTag \in Tag
      BY DEF NoTag, Tag, Byte
  <2> QED BY <2>1, <2>2 DEF TableType, PtyIdx
<1>2. \A i \in Registered : i \in 0..2 /\ tags[i] = BuiltinTag(i)
    BY DEF Registered, PtyIdx
<1>3. TableShape /\ DistinctStreamIds
    BY <1>2 DEF TableShape, DistinctStreamIds, BuiltinTag, Registered
<1>4. AllRegistered /\ ThreadsOnlyForInput /\ InputShape
    BY <1>2 DEF AllRegistered, ThreadsOnlyForInput, InputShape, BuiltinTag, Registered
<1>5. CursorType /\ CursorIsOpenStream
    BY DEF CursorType, CursorIsOpenStream, NoStream
<1>6. OutType
    BY DEF OutType
<1>7. ControlType
    BY DEF ControlType, ControlStates, Byte
<1>8. OuterType
    BY DEF OuterType
<1>9. in_escape \in BOOLEAN /\ alive \in BOOLEAN
    OBVIOUS
<1> QED
    BY <1>1, <1>3, <1>4, <1>5, <1>6, <1>7, <1>8, <1>9, TypeParts
    DEF IInv, DemuxInv, TableInv

\* A step of the thread, or of anything else, keeps the invariant.
LEMMA NextIInv == IInv /\ [Next]_vars => IInv'
<1> SUFFICES ASSUME IInv, [Next]_vars PROVE IInv'
    OBVIOUS
<1>1. CASE Next
    BY <1>1, FeedStep DEF Next, IInv, TableStep
<1>2. CASE UNCHANGED vars
    BY <1>2 DEF vars, outer, parser, control, table, IInv, DemuxInv, TypeOK, TableInv, TableType,
                TableShape, DistinctStreamIds, InputShape, AllRegistered, ThreadsOnlyForInput,
                CursorIsOpenStream, Registered
<1> QED BY <1>1, <1>2

\* IInv is an invariant of the demuxer.
LEMMA Inductive == Spec => []IInv
BY InitIInv, NextIInv, PTL DEF Spec

\* Whatever bytes arrive and whatever calls fail, the state of the demuxer is
\* well formed; the table of streams, in particular, never exceeds its arrays
\* (tags and pty_data of VIRTIOSO_MAX_PTY_COUNT entries in tcu_com.c).
THEOREM TypeCorrect == Spec => []TypeOK
<1>1. IInv => TypeOK
    BY DEF IInv, DemuxInv
<1> QED BY <1>1, Inductive, PTL

\* flush_stream, which indexes pty_data without a check, is only ever called for
\* a stream that is registered and whose PTY was created.
THEOREM CursorSafe == Spec => []CursorIsOpenStream
<1>1. IInv => CursorIsOpenStream
    BY DEF IInv, DemuxInv
<1> QED BY <1>1, Inductive, PTL

\* Registry and CONNECTED records together never give two streams one ID, so the
\* lookup of find_virtioso_pty_idx_by_stream_id is unambiguous.
THEOREM IdsDistinct == Spec => []DistinctStreamIds
<1>1. IInv => DistinctStreamIds
    BY DEF IInv, DemuxInv, TableInv
<1> QED BY <1>1, Inductive, PTL

\* Only streams with an input direction have a pty_input_handler thread.
THEOREM ThreadsSafe == Spec => []ThreadsOnlyForInput
<1>1. IInv => ThreadsOnlyForInput
    BY DEF IInv
<1> QED BY <1>1, Inductive, PTL

\* No byte takes back a registered stream or something that was written, the
\* rollback of apply_virtioso_registry_json included.
THEOREM NothingTakenBack == Spec => TableOnlyGrows
<1>1. ASSUME IInv, [Next]_vars
      PROVE  [ /\ num_proc' >= num_proc
               /\ \A i \in Registered : tags'[i] = tags[i]
               /\ \A i \in PtyIdx : IsPrefix(out[i], out'[i]) ]_vars
    BY <1>1, FeedStep DEF Next, IInv, TableStep, TableGrows, Extends
<1> QED BY <1>1, Inductive, PTL DEF Spec, TableOnlyGrows

-----------------------------------------------------------------------------
(* The parser, a branch at a time.                                         *)

\* While no record is being read, the byte and the escape flag select the branch.
LEMMA FramingBranch ==
    ASSUME NEW ch, NEW o, FeedVirtiosoByte(ch, o), control_state = "IDLE"
    PROVE  /\ ~in_escape /\ ch = ESC => EscapeStart(ch, o)
           /\ ~in_escape /\ ch # ESC => Payload(ch, o)
           /\ in_escape /\ ch = DEFAULT => EscapeDefault(ch, o)
           /\ in_escape /\ ch = ESC => EscapeEscape(ch, o)
           /\ in_escape /\ ch = CONTROL => EscapeControl(ch, o)
           /\ in_escape /\ ch \notin {DEFAULT, ESC, CONTROL} => EscapeStream(ch, o)
<1>1. ~ControlCommand(ch, o) /\ ~ControlLenHi(ch, o) /\ ~ControlLenLo(ch, o)
  BY DEF ControlCommand, ControlLenHi, ControlLenLo
<1>2. ~ControlPayload(ch, o) /\ ~ControlRegistry(ch, o) /\ ~ControlAnnounce(ch, o)
  BY DEF ControlPayload, ControlRegistry, ControlAnnounce
<1>3. \/ EscapeStart(ch, o) \/ EscapeDefault(ch, o) \/ EscapeEscape(ch, o)
      \/ EscapeControl(ch, o) \/ EscapeStream(ch, o) \/ Payload(ch, o)
  BY <1>1, <1>2 DEF FeedVirtiosoByte
<1>4. /\ EscapeStart(ch, o) => ~in_escape /\ ch = ESC
      /\ EscapeDefault(ch, o) => in_escape /\ ch = DEFAULT
      /\ EscapeEscape(ch, o) => in_escape /\ ch = ESC
      /\ EscapeControl(ch, o) => in_escape /\ ch = CONTROL
      /\ EscapeStream(ch, o) => in_escape /\ ch \notin {DEFAULT, ESC, CONTROL}
      /\ Payload(ch, o) => ~in_escape /\ ch # ESC
  BY DEF EscapeStart, EscapeDefault, EscapeEscape, EscapeControl, EscapeStream, Payload
<1> QED
  BY <1>3, <1>4, ProtocolBytes

\* While one is read, its state selects the branch.
LEMMA RecordBranch ==
    ASSUME NEW ch, NEW o, FeedVirtiosoByte(ch, o)
    PROVE  /\ control_state = "CMD" => ControlCommand(ch, o)
           /\ control_state \in {"REGISTRY_LEN_HI", "ANNOUNCE_LEN_HI"} => ControlLenHi(ch, o)
           /\ control_state \in {"REGISTRY_LEN_LO", "ANNOUNCE_LEN_LO"} => ControlLenLo(ch, o)
           /\ control_state = "REGISTRY_JSON" =>
                  ControlPayload(ch, o) \/ ControlRegistry(ch, o)
           /\ control_state = "ANNOUNCE_PAYLOAD" =>
                  ControlPayload(ch, o) \/ ControlAnnounce(ch, o)
<1>1. /\ EscapeStart(ch, o) => control_state = "IDLE"
      /\ EscapeDefault(ch, o) => control_state = "IDLE"
      /\ EscapeEscape(ch, o) => control_state = "IDLE"
      /\ EscapeControl(ch, o) => control_state = "IDLE"
      /\ EscapeStream(ch, o) => control_state = "IDLE"
      /\ Payload(ch, o) => control_state = "IDLE"
  BY DEF EscapeStart, EscapeDefault, EscapeEscape, EscapeControl, EscapeStream, Payload
<1>2. /\ ControlCommand(ch, o) => control_state = "CMD"
      /\ ControlLenHi(ch, o) => control_state \in {"REGISTRY_LEN_HI", "ANNOUNCE_LEN_HI"}
      /\ ControlLenLo(ch, o) => control_state \in {"REGISTRY_LEN_LO", "ANNOUNCE_LEN_LO"}
      /\ ControlPayload(ch, o) => control_state \in {"REGISTRY_JSON", "ANNOUNCE_PAYLOAD"}
      /\ ControlRegistry(ch, o) => control_state = "REGISTRY_JSON"
      /\ ControlAnnounce(ch, o) => control_state = "ANNOUNCE_PAYLOAD"
  BY DEF ControlCommand, ControlLenHi, ControlLenLo, ControlPayload, ControlRegistry, ControlAnnounce
<1> QED
  BY <1>1, <1>2 DEF FeedVirtiosoByte

\* On a raw link a byte is mirrored and then parsed.
LEMMA MirrorFirst ==
    ASSUME OuterMode = "raw", NEW ch, Feed(ch)
    PROVE  alive /\ MirrorAndFeed(ch)
BY DEF Feed, RawByte, OuterPayload, OuterEscapeStart, OuterEscapeEscape, OuterReset,
       OuterTagSwitch

-----------------------------------------------------------------------------
(* What the streams were given.                                            *)

\* The streams of a table that does not change
LEMMA SamePtys ==
    ASSUME UNCHANGED table, NEW i
    PROVE  StreamPtys(i)' = StreamPtys(i)
BY DEF table, StreamPtys, Registered

\* A stream has one PTY.
LEMMA OnePty ==
    ASSUME TableInv, NEW i, NEW p \in StreamPtys(i)
    PROVE  StreamPtys(i) # {} /\ (CHOOSE q \in StreamPtys(i) : TRUE) = p
<1>1. \A q \in StreamPtys(i) : q = p
  <2> SUFFICES ASSUME NEW q \in StreamPtys(i), q # p PROVE FALSE
    OBVIOUS
  <2>1. /\ p \in Registered /\ q \in Registered /\ p >= BuiltinCount /\ q >= BuiltinCount
        /\ tags[p].value = i /\ tags[q].value = i
    BY DEF StreamPtys
  <2> QED
    BY <2>1 DEF TableInv, DistinctStreamIds
<1>2. (CHOOSE q \in StreamPtys(i) : TRUE) \in StreamPtys(i)
  OBVIOUS
<1> QED
  BY <1>1, <1>2, Zenon

\* The same after a step
LEMMA OnePtyThen ==
    ASSUME TableInv', NEW i, NEW p \in StreamPtys(i)'
    PROVE  StreamPtys(i)' # {} /\ (CHOOSE q \in StreamPtys(i)' : TRUE) = p
<1>1. \A q \in StreamPtys(i)' : q = p
  <2> SUFFICES ASSUME NEW q \in StreamPtys(i)', q # p PROVE FALSE
    OBVIOUS
  <2>1. /\ p \in Registered' /\ q \in Registered' /\ p >= BuiltinCount /\ q >= BuiltinCount
        /\ tags'[p].value = i /\ tags'[q].value = i
    BY DEF StreamPtys
  <2> QED
    BY <2>1 DEF TableInv, DistinctStreamIds
<1>2. (CHOOSE q \in StreamPtys(i)' : TRUE) \in StreamPtys(i)'
  OBVIOUS
<1> QED
  BY <1>1, <1>2, Zenon

\* What was given to a stream went to its PTY.
LEMMA DeliveredIs ==
    ASSUME TableInv, NEW i, NEW p \in StreamPtys(i)
    PROVE  Delivered(i) = out[p]
BY OnePty, Zenon DEF Delivered

\* The same after a step
LEMMA DeliveredIsThen ==
    ASSUME TableInv', NEW i, NEW p \in StreamPtys(i)'
    PROVE  Delivered(i)' = out'[p]
BY OnePtyThen, Zenon DEF Delivered

\* PTYs of streams come after the built-in ones.
LEMMA StreamPtysAre ==
    ASSUME TableType, NEW i, NEW p \in StreamPtys(i)
    PROVE  p \in PtyIdx /\ p \in Registered /\ p >= BuiltinCount /\ p # RAW_CCPLEX
<1>1. p \in Registered /\ p >= BuiltinCount
  BY DEF StreamPtys
<1> QED
  BY <1>1, MaxPtyAssumption DEF TableType, Registered, PtyIdx, BuiltinCount, RAW_CCPLEX

\* What a stream's PTY has is a sequence of bytes.
LEMMA DeliveredType ==
    ASSUME IInv, NEW i
    PROVE  Delivered(i) \in Seq(Byte)
<1>1. TableInv /\ TableType /\ OutType
  BY TypeParts DEF IInv, DemuxInv, TableInv
<1>2. CASE StreamPtys(i) = {}
  <2>1. <<>> \in Seq(Byte)
    OBVIOUS
  <2> QED
    BY <1>2, <2>1 DEF Delivered
<1>3. ASSUME NEW p \in StreamPtys(i) PROVE Delivered(i) \in Seq(Byte)
  BY <1>1, <1>3, DeliveredIs, StreamPtysAre DEF OutType
<1> QED
  BY <1>2, <1>3

\* The same after a step
LEMMA DeliveredTypeThen ==
    ASSUME IInv', NEW i
    PROVE  Delivered(i)' \in Seq(Byte)
<1>1. TableInv' /\ TableType' /\ OutType'
  BY DEF IInv, DemuxInv, TableInv, TypeOK, OutType, TableType
<1>2. CASE StreamPtys(i)' = {}
  <2>1. <<>> \in Seq(Byte)
    OBVIOUS
  <2> QED
    BY <1>2, <2>1 DEF Delivered
<1>3. ASSUME NEW p \in StreamPtys(i)' PROVE Delivered(i)' \in Seq(Byte)
  <2>1. Delivered(i)' = out'[p]
    BY <1>1, <1>3, DeliveredIsThen
  <2>2. p \in PtyIdx
    <3>1. num_proc' \in BuiltinCount..MaxPty /\ MaxPty \in Nat
      BY <1>1, MaxPtyAssumption DEF TableType
    <3>2. p \in 0..(num_proc' - 1)
      BY <1>3 DEF StreamPtys, Registered
    <3>3. PICK n : n = num_proc'
      OBVIOUS
    <3>4. n \in 3..MaxPty /\ p \in 0..(n - 1)
      BY <3>1, <3>2, <3>3 DEF BuiltinCount
    <3> QED
      BY <3>1, <3>4 DEF PtyIdx
  <2> QED
    BY <1>1, <2>1, <2>2 DEF OutType
<1> QED
  BY <1>2, <1>3

\* Nothing is written to a stream.
LEMMA SameDelivered ==
    ASSUME TableInv, TableInv', UNCHANGED table,
           \A p \in PtyIdx : p # RAW_CCPLEX => out'[p] = out[p], NEW i
    PROVE  Delivered(i)' = Delivered(i)
<1>1. StreamPtys(i)' = StreamPtys(i)
  BY SamePtys
<1>2. CASE StreamPtys(i) = {}
  BY <1>1, <1>2 DEF Delivered
<1>3. ASSUME NEW p \in StreamPtys(i) PROVE Delivered(i)' = Delivered(i)
  <2>1. Delivered(i) = out[p]
    BY <1>3, DeliveredIs
  <2>2. p \in StreamPtys(i)'
    BY <1>1, <1>3
  <2>3. Delivered(i)' = out'[p]
    BY <2>2, DeliveredIsThen
  <2> QED
    BY <1>3, <2>1, <2>3, StreamPtysAre DEF TableInv
<1> QED
  BY <1>2, <1>3

\* The mirror is not a stream.
LEMMA MirrorElsewhere ==
    ASSUME OutType, NEW ch \in Byte
    PROVE  /\ Mirrored(ch) \in [PtyIdx -> Seq(Byte)]
           /\ \A p \in PtyIdx : p # RAW_CCPLEX => Mirrored(ch)[p] = out[p]
           /\ Mirrored(ch)[RAW_CCPLEX] = Append(out[RAW_CCPLEX], ch)
<1>1. RAW_CCPLEX \in PtyIdx
  BY MaxPtyAssumption DEF RAW_CCPLEX, PtyIdx
<1> QED
  BY <1>1, PutExtends DEF OutType, Mirrored, Put

\* A byte is written to one.
LEMMA PutDelivered ==
    ASSUME TableInv, TableInv', UNCHANGED table, NEW o \in [PtyIdx -> Seq(Byte)],
           \A p \in PtyIdx : p # RAW_CCPLEX => o[p] = out[p],
           NEW i, NEW p \in StreamPtys(i), NEW b, out' = Put(o, p, b)
    PROVE  /\ Delivered(i)' = Append(Delivered(i), b)
           /\ \A j : j # i => Delivered(j)' = Delivered(j)
<1>1. p \in PtyIdx /\ p # RAW_CCPLEX /\ tags[p].value = i
  BY StreamPtysAre DEF TableInv, StreamPtys
<1>2. out'[p] = Append(out[p], b) /\ \A q \in PtyIdx : q # p => out'[q] = o[q]
  BY <1>1 DEF Put
<1>3. Delivered(i)' = Append(Delivered(i), b)
  <2>1. Delivered(i) = out[p]
    BY DeliveredIs
  <2>2. p \in StreamPtys(i)'
    BY SamePtys
  <2>3. Delivered(i)' = out'[p]
    BY <2>2, DeliveredIsThen
  <2> QED
    BY <1>2, <2>1, <2>3
<1>4. ASSUME NEW j, j # i PROVE Delivered(j)' = Delivered(j)
  <2>1. StreamPtys(j)' = StreamPtys(j)
    BY SamePtys
  <2>2. CASE StreamPtys(j) = {}
    BY <2>1, <2>2 DEF Delivered
  <2>3. ASSUME NEW q \in StreamPtys(j) PROVE Delivered(j)' = Delivered(j)
    <3>1. Delivered(j) = out[q]
      BY <2>3, DeliveredIs
    <3>2. q \in StreamPtys(j)'
      BY <2>1, <2>3
    <3>3. Delivered(j)' = out'[q]
      BY <3>2, DeliveredIsThen
    <3>4. q \in PtyIdx /\ q # RAW_CCPLEX /\ tags[q].value = j
      BY <2>3, StreamPtysAre DEF TableInv, StreamPtys
    <3> QED
      BY <1>1, <1>2, <1>4, <3>1, <3>3, <3>4
  <2> QED
    BY <2>2, <2>3
<1> QED
  BY <1>3, <1>4
=============================================================================
