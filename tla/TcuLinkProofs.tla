--------------------------- MODULE TcuLinkProofs ---------------------------
(***************************************************************************)
(* Proofs about TcuLink for every alphabet, every table of clients, every  *)
(* size of the buffers and every order in which clients print.             *)
(***************************************************************************)
EXTENDS TcuLink, SeqLemmas

-----------------------------------------------------------------------------
(* The inductive invariant, by parts.                                      *)

SinkTypeOK ==
    /\ RSTypeOK
    /\ in_call => batch.buf \in [1..BufSize -> PrintBytes]
    /\ handed \in [SinkIfs -> Seq(PrintBytes \cup {Return})]

WireTypeOK ==
    /\ wire \in Seq(Byte)
    /\ link \in Seq(Byte)
    /\ tcu_tag \in Chips \cup {-1}
    /\ taken \in 0..Len(serial)
    /\ sent \in [Chips \ {0} -> Seq(Byte)]
    /\ foreign \in BOOLEAN

\* What the batch interface has still to put.
InBatch ==
    IF in_call /\ sink # "null" /\ Sound(batch)
    THEN SubSeq(batch.buf, batch.head + 1, batch.tail) ELSE <<>>

SinkState ==
    /\ \A i \in CharIfs : handed[i] = PutBy(i) \o char_out[i]
    /\ handed["batch"] = PutBy("batch") \o InBatch
    /\ ~in_call => batch.head = batch.tail

\* The end of s, if s ends in a line end, has both halves.
EndedInBoth(s) ==
    s # <<>> /\ s[Len(s)] \in Ends => Len(s) > 1 /\ {s[Len(s) - 1], s[Len(s)]} = Ends

InnerEnds(s) ==
    \A k \in 2..Len(s) :
        (s[k] \notin Ends /\ s[k - 1] \in Ends) => k > 2 /\ {s[k - 2], s[k - 1]} = Ends

\* With -i: seen_n and seen_r tell the half of a line end that was written last
\* and has not been completed.
PatchState(t) ==
    LET s == Plain(t)
    IN  /\ InnerEnds(s)
        /\ ~(t.seen_n /\ t.seen_r)
        /\ t.seen_n => s # <<>> /\ s[Len(s)] = LF
        /\ t.seen_r => s # <<>> /\ s[Len(s)] = CR
        /\ ~t.seen_n /\ ~t.seen_r => EndedInBoth(s)

\* With -t: last_ch is the last byte, and NUL before the first.
StampState(t) ==
    LET s == Plain(t)
    IN  IF log_timestamp
        THEN t.out = Stamped(s) /\ t.last_ch = (IF s = <<>> THEN NUL ELSE s[Len(s)])
        ELSE t.out = s

\* Every line end of s is a Return and a NewLine, or will be with one more byte.
EndedSoFar(s) ==
    \A k \in 1..Len(s) :
        /\ s[k] = LF => k > 1 /\ s[k - 1] = CR
        /\ s[k] = CR => k = Len(s) \/ s[k + 1] = LF

\* What a PTY t has after it was given s, with p for -i.
Follows(p, s, t) ==
    IF ~p THEN Plain(t) = s
    ELSE /\ Text(Plain(t)) = Text(s)
         /\ EndedSoFar(s) =>
               /\ Plain(t) = s
               /\ ~t.seen_n
               /\ t.seen_r <=> (s # <<>> /\ s[Len(s)] = CR)

PtyState ==
    /\ patch => \A i \in AllPtys : PatchState(pty[i])
    /\ \A i \in AllPtys : StampState(pty[i])
    /\ Follows(patch, link, pty[RawPty])

AllPrinted == [i \in Chips |-> Printed(i)]

\* What has been given to the PTY of i: all that i printed but the byte on the wire.
Given(i) == IF wire # <<>> /\ i = tcu_tag THEN Front(AllPrinted[i]) ELSE AllPrinted[i]

Coded(b) == IF b = OUTER_ESC THEN <<b, b>> ELSE <<b>>

\* A byte of client i is on the wire w, with or without its tag, and the parser is
\* where it should be.
Sending(b, i, w, escape, guest) ==
    LET tag == ChipTags[i + 1]
    IN  \/ w = <<OUTER_ESC, tag>> \o Coded(b) /\ ~escape
        \/ w = <<tag>> \o Coded(b) /\ escape
        \/ w = Coded(b) /\ ~escape /\ guest = i
        \/ w = <<b>> /\ b = OUTER_ESC /\ escape /\ guest = i

\* The chip has restarted.
Restarting ==
    \/ wire = <<OUTER_ESC, OUTER_RESET>> /\ ~tcu_in_escape
    \/ wire = <<OUTER_RESET>> /\ tcu_in_escape

ClientState ==
    ~foreign =>
        /\ \A i \in Chips : Follows(patch, Given(i), pty[i])
        /\ wire = <<>> => ~tcu_in_escape /\ tcu_tag \in {-1, cur_rx_guest}
        /\ wire # <<>> /\ tcu_tag = -1 => Restarting
        /\ wire # <<>> /\ tcu_tag # -1 =>
               /\ AllPrinted[tcu_tag] # <<>>
               /\ Sending(Last(AllPrinted[tcu_tag]), tcu_tag, wire, tcu_in_escape, cur_rx_guest)

TLInv == SinkTypeOK /\ THTypeOK /\ WireTypeOK /\ SinkState /\ PtyState /\ ClientState
-----------------------------------------------------------------------------
(* Leaving out elements.                                                   *)

Kept(x, S) == IF x \in S THEN <<>> ELSE <<x>>
KeptSeq(s, S) == [k \in DOMAIN s |-> IF s[k] \in S THEN <<>> ELSE <<s[k]>>]

\* One element that is kept or left out
LEMMA KeptType ==
    ASSUME NEW T, NEW S, NEW x \in T
    PROVE  Kept(x, S) \in Seq(T \ S)
<1>1. <<>> \in Seq(T \ S)
  OBVIOUS
<1>2. ASSUME x \notin S PROVE <<x>> \in Seq(T \ S)
  <2>1. x \in T \ S
    BY <1>2
  <2> DEFINE U == T \ S
  <2> HIDE DEF U
  <2>2. <<x>> \in Seq(U)
    BY <2>1 DEF U
  <2> QED
    BY <2>2 DEF U
<1> QED
  BY <1>1, <1>2 DEF Kept

\* All of them
LEMMA KeptParts ==
    ASSUME NEW T, NEW S, NEW s \in Seq(T)
    PROVE  /\ KeptSeq(s, S) \in Seq(Seq(T \ S)) /\ Len(KeptSeq(s, S)) = Len(s)
           /\ \A k \in 1..Len(s) : KeptSeq(s, S)[k] = Kept(s[k], S)
<1>1. DOMAIN s = 1..Len(s) /\ Len(s) \in Nat /\ \A k \in 1..Len(s) : s[k] \in T
  OBVIOUS
<1>2. \A x \in T : (IF x \in S THEN <<>> ELSE <<x>>) \in Seq(T \ S)
  BY KeptType DEF Kept
<1> QED
  BY <1>1, <1>2 DEF Kept, KeptSeq

\* What is left are the elements that are not in S.
LEMMA WithoutType ==
    ASSUME NEW T, NEW S, NEW s \in Seq(T)
    PROVE  Without(s, S) \in Seq(T \ S)
BY KeptParts, FlattenType DEF Without, KeptSeq

\* Nothing to leave out
LEMMA WithoutEmpty == ASSUME NEW S PROVE Without(<<>>, S) = <<>>
<1>1. [k \in DOMAIN <<>> |-> IF <<>>[k] \in S THEN <<>> ELSE << <<>>[k] >>] = <<>>
  OBVIOUS
<1> QED
  BY <1>1, FlattenEmpty DEF Without

\* One element at a time
LEMMA WithoutAppend ==
    ASSUME NEW T, NEW S, NEW s \in Seq(T), NEW x \in T
    PROVE  Without(Append(s, x), S) = IF x \in S THEN Without(s, S) ELSE Append(Without(s, S), x)
<1> DEFINE u == Append(s, x)
           p == KeptSeq(s, S)
           q == KeptSeq(u, S)
           e == Kept(x, S)
<1>1. /\ u \in Seq(T) /\ Len(u) = Len(s) + 1 /\ Len(s) \in Nat
      /\ u[Len(s) + 1] = x /\ \A k \in 1..Len(s) : u[k] = s[k]
  OBVIOUS
<1>2. /\ p \in Seq(Seq(T \ S)) /\ Len(p) = Len(s)
      /\ \A k \in 1..Len(s) : p[k] = Kept(s[k], S)
  BY KeptParts
<1> HIDE DEF u
<1>3. /\ q \in Seq(Seq(T \ S)) /\ Len(q) = Len(u)
      /\ \A k \in 1..Len(u) : q[k] = Kept(u[k], S)
  BY <1>1, KeptParts, Zenon
<1>4. Without(s, S) = FlattenSeq(p) /\ Without(u, S) = FlattenSeq(q)
  BY DEF Without, KeptSeq
<1>5. e \in Seq(T \ S)
  BY KeptType
<1> HIDE DEF p, q, e
<1>6. q = Append(p, e)
  <2>1. Append(p, e) \in Seq(Seq(T \ S)) /\ Len(Append(p, e)) = Len(s) + 1
    BY <1>2, <1>5
  <2>2. \A k \in 1..(Len(s) + 1) : k \in 1..Len(s) \/ k = Len(s) + 1
    BY <1>1
  <2>3. Append(p, e)[Len(s) + 1] = e /\ \A k \in 1..Len(s) : Append(p, e)[k] = p[k]
    BY <1>2, <1>5
  <2>4. q[Len(s) + 1] = e /\ \A k \in 1..Len(s) : q[k] = p[k]
    <3>1. Len(s) + 1 \in 1..Len(u) /\ \A k \in 1..Len(s) : k \in 1..Len(u)
      BY <1>1
    <3> QED
      BY <1>1, <1>2, <1>3, <3>1, Zenon DEF e
  <2>5. \A k \in 1..(Len(s) + 1) : q[k] = Append(p, e)[k]
    BY <2>2, <2>3, <2>4, Zenon
  <2> QED
    BY <1>1, <1>3, <2>1, <2>5, SeqEqual
<1>7. FlattenSeq(q) = FlattenSeq(p) \o e
  BY <1>2, <1>5, <1>6, FlattenAppend
<1>8. Without(s, S) \in Seq(T \ S)
  BY WithoutType
<1>9. CASE x \in S
  <2>1. Without(s, S) \o <<>> = Without(s, S)
    BY <1>8
  <2> QED
    BY <1>4, <1>7, <1>9, <2>1, Zenon DEF e, Kept, u
<1>10. CASE x \notin S
  <2>1. Without(s, S) \o <<x>> = Append(Without(s, S), x)
    BY <1>8, <1>10
  <2> QED
    BY <1>4, <1>7, <1>10, <2>1, Zenon DEF e, Kept, u
<1> QED
  BY <1>9, <1>10, Zenon

-----------------------------------------------------------------------------
(* A PTY and its log.                                                      *)

LogByte == Byte \cup {STAMP}
PtyType == [out: Seq(LogByte), last_ch: Byte, seen_n: BOOLEAN, seen_r: BOOLEAN]

\* The protocol's values are bytes; a timestamp is none.
LEMMA TcuBytes ==
    /\ {NUL, LF, CR, OUTER_ESC, OUTER_RESET} \subseteq Byte
    /\ LF # CR /\ STAMP \notin Byte /\ Ends = {LF, CR} /\ Ends \subseteq Byte
    /\ OUTER_ESC # OUTER_RESET
BY ByteMaxAssumption DEF NUL, LF, CR, OUTER_ESC, OUTER_RESET, Byte, STAMP, Ends

\* A log without its timestamps is bytes.
LEMMA PlainType ==
    ASSUME NEW t \in PtyType
    PROVE  t.out \in Seq(LogByte) /\ Plain(t) \in Seq(Byte)
<1>1. t.out \in Seq(LogByte)
  BY DEF PtyType
<1>2. LogByte \ {STAMP} = Byte
  BY TcuBytes DEF LogByte
<1>3. Without(t.out, {STAMP}) \in Seq(LogByte \ {STAMP})
  BY <1>1, WithoutType
<1> QED
  BY <1>1, <1>2, <1>3 DEF Plain

\* A byte that is written is the last one.
LEMMA FlushIs ==
    ASSUME NEW t \in PtyType, NEW ch \in Byte
    PROVE  /\ Flush(t, ch) \in PtyType
           /\ Plain(Flush(t, ch)) = Append(Plain(t), ch)
           /\ Flush(t, ch).seen_n = t.seen_n /\ Flush(t, ch).seen_r = t.seen_r
           /\ Flush(t, ch).last_ch = IF log_timestamp THEN ch ELSE t.last_ch
           /\ Flush(t, ch).out = t.out \o (IF StampDue(t) THEN <<STAMP, ch>> ELSE <<ch>>)
<1> DEFINE f == Flush(t, ch)
           o == t.out
           e == IF StampDue(t) THEN <<STAMP, ch>> ELSE <<ch>>
<1>1. o \in Seq(LogByte) /\ ch \in LogByte /\ STAMP \in LogByte
  BY PlainType DEF LogByte
<1>2. e \in Seq(LogByte)
  BY <1>1
<1>3. o \o e \in Seq(LogByte)
  <2> HIDE DEF e, o
  <2> QED
    BY <1>1, <1>2
<1>4. /\ f.seen_n = t.seen_n /\ f.seen_r = t.seen_r /\ f.out = o \o e
      /\ f.last_ch = IF log_timestamp THEN ch ELSE t.last_ch
  BY DEF PtyType, Flush
<1>5. f \in PtyType
  <2>1. f = [t EXCEPT !.out = o \o e, !.last_ch = IF log_timestamp THEN ch ELSE @]
    BY DEF Flush
  <2> HIDE DEF e, o, f
  <2> QED
    BY <1>3, <2>1 DEF PtyType
<1>6. Plain(f) = Append(Plain(t), ch)
  <2> HIDE DEF f
  <2>1. Without(Append(o, ch), {STAMP}) = Append(Without(o, {STAMP}), ch)
    BY <1>1, TcuBytes, WithoutAppend
  <2>2. CASE ~StampDue(t)
    <3>1. f.out = Append(o, ch)
      BY <1>1, <1>4, <2>2
    <3> QED
      BY <2>1, <3>1 DEF Plain
  <2>3. CASE StampDue(t)
    <3> DEFINE p == Append(o, STAMP)
    <3>1. p \in Seq(LogByte) /\ Without(p, {STAMP}) = Without(o, {STAMP})
      BY <1>1, WithoutAppend
    <3>2. f.out = Append(p, ch)
      BY <1>1, <1>4, <2>3
    <3> HIDE DEF p
    <3>3. Without(Append(p, ch), {STAMP}) = Append(Without(p, {STAMP}), ch)
      BY <1>1, <3>1, TcuBytes, WithoutAppend
    <3> QED
      BY <3>1, <3>2, <3>3 DEF Plain
  <2> QED
    BY <2>2, <2>3
<1> QED
  BY <1>4, <1>5, <1>6

\* Only the flags change.
LEMMA ClearIs ==
    ASSUME NEW t \in PtyType
    PROVE  /\ Clear(t) \in PtyType /\ Clear(t).out = t.out /\ Clear(t).last_ch = t.last_ch
           /\ Plain(Clear(t)) = Plain(t) /\ ~Clear(t).seen_n /\ ~Clear(t).seen_r
BY DEF Clear, PtyType, Plain

\* Noting half of a line end changes only the flags.
LEMMA NoteIs ==
    ASSUME NEW t \in PtyType, NEW ch \in Ends
    PROVE  /\ Note(t, ch) \in PtyType /\ Note(t, ch).out = t.out /\ Note(t, ch).last_ch = t.last_ch
           /\ Plain(Note(t, ch)) = Plain(t)
           /\ Note(t, ch).seen_n = (t.seen_n \/ ch = LF)
           /\ Note(t, ch).seen_r = (t.seen_r \/ ch = CR)
BY DEF Note, PtyType, Plain

\* patch2flush_stream: the line end that is completed, if one is, comes first.
Completion(t) ==
    IF t.seen_r THEN <<LF>> ELSE IF t.seen_n THEN <<CR>> ELSE <<>>

\* Complete writes what is missing of a line end and forgets it.
LEMMA CompleteIs ==
    ASSUME NEW t \in PtyType
    PROVE  /\ Complete(t) = IF t.seen_r THEN Clear(Flush(t, LF))
                            ELSE IF t.seen_n THEN Clear(Flush(t, CR)) ELSE t
           /\ Complete(t) \in PtyType
           /\ Plain(Complete(t)) = Plain(t) \o Completion(t)
           /\ ~Complete(t).seen_n /\ ~Complete(t).seen_r
<1>1. LF \in Byte /\ CR \in Byte
  BY TcuBytes
<1>2. t.seen_r \in BOOLEAN /\ t.seen_n \in BOOLEAN
  BY DEF PtyType
<1>3. Complete(t) = IF t.seen_r THEN Clear(Flush(t, LF))
                    ELSE IF t.seen_n THEN Clear(Flush(t, CR)) ELSE t
  BY <1>2 DEF Complete
<1>4. \A c \in {LF, CR} : /\ Clear(Flush(t, c)) \in PtyType
                          /\ Plain(Clear(Flush(t, c))) = Append(Plain(t), c)
                          /\ ~Clear(Flush(t, c)).seen_n /\ ~Clear(Flush(t, c)).seen_r
  BY <1>1, FlushIs, ClearIs
<1>5. Plain(t) \in Seq(Byte)
  BY PlainType
<1>6. Append(Plain(t), LF) = Plain(t) \o <<LF>> /\ Append(Plain(t), CR) = Plain(t) \o <<CR>>
      /\ Plain(t) \o <<>> = Plain(t)
  BY <1>1, <1>5, AppendIsConcat, ConcatEmptySeq, Zenon
<1>7. CASE t.seen_r
  BY <1>3, <1>4, <1>6, <1>7 DEF Completion
<1>8. CASE ~t.seen_r /\ t.seen_n
  BY <1>3, <1>4, <1>6, <1>8 DEF Completion
<1>9. CASE ~t.seen_r /\ ~t.seen_n
  BY <1>3, <1>6, <1>9 DEF Completion
<1> QED
  BY <1>3, <1>7, <1>8, <1>9

\* What patch2flush_stream writes, and the flags it leaves
LEMMA PatchFlushIs ==
    ASSUME NEW t \in PtyType, NEW ch \in Byte
    PROVE  LET q == PatchFlush(t, ch)
               n == t.seen_n \/ ch = LF
               r == t.seen_r \/ ch = CR
           IN  /\ q \in PtyType
               /\ ~patch => Plain(q) = Append(Plain(t), ch)
               /\ patch /\ ch \in Ends => /\ Plain(q) = Append(Plain(t), ch)
                                          /\ q.seen_n = (n /\ ~r) /\ q.seen_r = (r /\ ~n)
               /\ patch /\ ch \notin Ends => /\ Plain(q) = Append(Plain(t) \o Completion(t), ch)
                                             /\ ~q.seen_n /\ ~q.seen_r
<1> DEFINE q == PatchFlush(t, ch)
           n == t.seen_n \/ ch = LF
           r == t.seen_r \/ ch = CR
<1>1. CASE ~patch
  <2>1. q = Flush(t, ch)
    BY <1>1 DEF PatchFlush
  <2> HIDE DEF q
  <2> QED
    BY <1>1, <2>1, FlushIs DEF q
<1>2. CASE patch /\ ch \in Ends
  <2> DEFINE m == Note(t, ch)
             a == Flush(m, ch)
  <2>1. q = IF a.seen_n /\ a.seen_r THEN Clear(a) ELSE a
    BY <1>2 DEF PatchFlush, Ends
  <2>2. m \in PtyType /\ Plain(m) = Plain(t) /\ m.seen_n = n /\ m.seen_r = r
    BY <1>2, NoteIs
  <2> HIDE DEF m, n, r
  <2>3. a \in PtyType /\ Plain(a) = Append(Plain(t), ch) /\ a.seen_n = n /\ a.seen_r = r
    BY <2>2, FlushIs
  <2>4. a.seen_n \in BOOLEAN /\ a.seen_r \in BOOLEAN
    BY <2>3 DEF PtyType
  <2> HIDE DEF a, q
  <2>5. CASE a.seen_n /\ a.seen_r
    BY <1>2, <2>1, <2>3, <2>4, <2>5, ClearIs DEF q, n, r, PtyType
  <2>6. CASE ~(a.seen_n /\ a.seen_r)
    BY <1>2, <2>1, <2>3, <2>4, <2>6 DEF q, n, r
  <2> QED
    BY <2>5, <2>6
<1>3. CASE patch /\ ch \notin Ends
  <2> DEFINE c == Complete(t)
             a == Flush(c, ch)
  <2>1. q = IF a.seen_n /\ a.seen_r THEN Clear(a) ELSE a
    BY <1>3 DEF PatchFlush, Ends
  <2>2. c \in PtyType /\ Plain(c) = Plain(t) \o Completion(t) /\ ~c.seen_n /\ ~c.seen_r
    BY CompleteIs
  <2> HIDE DEF c
  <2>3. a \in PtyType /\ Plain(a) = Append(Plain(c), ch) /\ a.seen_n = c.seen_n /\ a.seen_r = c.seen_r
    BY <2>2, FlushIs, Zenon
  <2>4. Plain(a) = Append(Plain(t) \o Completion(t), ch) /\ ~a.seen_n /\ ~a.seen_r
    BY <2>2, <2>3, Zenon
  <2> HIDE DEF a, q
  <2> QED
    BY <1>3, <2>1, <2>3, <2>4 DEF q
<1> QED
  BY <1>1, <1>2, <1>3

-----------------------------------------------------------------------------
(* Line ends.                                                              *)

\* Line ends inside stay complete when the last one is, or goes on.
LEMMA InnerEndsAppend ==
    ASSUME NEW s \in Seq(Byte), NEW ch \in Byte, InnerEnds(s), ch \in Ends \/ EndedInBoth(s)
    PROVE  InnerEnds(Append(s, ch))
<1> DEFINE u == Append(s, ch)
           n == Len(s)
<1>1. n \in Nat /\ Len(u) = n + 1 /\ u[n + 1] = ch /\ \A k \in 1..n : u[k] = s[k]
  OBVIOUS
<1> HIDE DEF u, n
<1>2. SUFFICES ASSUME NEW k \in 2..(n + 1), u[k] \notin Ends, u[k - 1] \in Ends
               PROVE  k > 2 /\ {u[k - 2], u[k - 1]} = Ends
  BY <1>1 DEF InnerEnds, u
<1>3. CASE k \in 2..n
  <2>1. u[k] = s[k] /\ u[k - 1] = s[k - 1] /\ (k > 2 => u[k - 2] = s[k - 2])
    BY <1>1, <1>3
  <2> QED
    BY <1>2, <1>3, <2>1 DEF InnerEnds, n
<1>4. CASE k = n + 1
  <2>1. n >= 1 /\ u[k] = ch /\ u[k - 1] = s[n] /\ (k > 2 => u[k - 2] = s[n - 1])
    BY <1>1, <1>2, <1>4
  <2>2. s # <<>>
    BY <2>1 DEF n
  <2>3. EndedInBoth(s)
    BY <1>2, <2>1
  <2>4. n > 1 /\ {s[n - 1], s[n]} = Ends
    BY <1>2, <2>1, <2>2, <2>3 DEF EndedInBoth, n
  <2> QED
    BY <1>1, <1>4, <2>1, <2>4
<1> QED
  BY <1>1, <1>2, <1>3, <1>4

\* The last byte of a sequence, and the one before it
LEMMA LastOfAppend ==
    ASSUME NEW s \in Seq(Byte), NEW ch \in Byte
    PROVE  LET u == Append(s, ch)
           IN  /\ u # <<>> /\ u \in Seq(Byte) /\ Len(u) = Len(s) + 1 /\ u[Len(u)] = ch
               /\ s # <<>> => Len(u) > 1 /\ u[Len(u) - 1] = s[Len(s)]
<1> DEFINE u == Append(s, ch)
           n == Len(s)
<1>1. /\ u \in Seq(Byte) /\ Len(u) = n + 1 /\ u[n + 1] = ch /\ n \in Nat
      /\ \A k \in 1..n : u[k] = s[k]
  BY AppendProperties
<1>2. s # <<>> => n >= 1
  BY <1>1, EmptySeq DEF n
<1> HIDE DEF u, n
<1>3. u # <<>>
  BY <1>1
<1>4. s # <<>> => Len(u) > 1 /\ u[Len(u) - 1] = s[n]
  <2>1. Len(u) - 1 = n
    BY <1>1
  <2>2. s # <<>> => n \in 1..n /\ n + 1 > 1
    BY <1>1, <1>2
  <2> QED
    BY <1>1, <2>1, <2>2
<1> QED
  BY <1>1, <1>3, <1>4 DEF u, n

\* The flags and what was written stay in step.
LEMMA PatchStateStep ==
    ASSUME patch, NEW t \in PtyType, NEW ch \in Byte, PatchState(t)
    PROVE  PatchState(PatchFlush(t, ch))
<1> DEFINE q == PatchFlush(t, ch)
           s == Plain(t)
           u == Plain(q)
<1>1. s \in Seq(Byte) /\ t.seen_n \in BOOLEAN /\ t.seen_r \in BOOLEAN
  BY PlainType DEF PtyType
<1>2. InnerEnds(s) /\ ~(t.seen_n /\ t.seen_r)
      /\ (t.seen_n => s # <<>> /\ s[Len(s)] = LF) /\ (t.seen_r => s # <<>> /\ s[Len(s)] = CR)
      /\ (~t.seen_n /\ ~t.seen_r => EndedInBoth(s))
  BY DEF PatchState
<1>3. CASE ch \in Ends
  <2>1. /\ u = Append(s, ch)
        /\ q.seen_n = ((t.seen_n \/ ch = LF) /\ ~(t.seen_r \/ ch = CR))
        /\ q.seen_r = ((t.seen_r \/ ch = CR) /\ ~(t.seen_n \/ ch = LF))
    BY <1>3, PatchFlushIs
  <2>2. ch = LF \/ ch = CR
    BY <1>3, TcuBytes
  <2> HIDE DEF q, s, u
  <2>3. InnerEnds(u)
    BY <1>1, <1>2, <1>3, <2>1, InnerEndsAppend
  <2>4. u # <<>> /\ Len(u) = Len(s) + 1 /\ u[Len(u)] = ch
        /\ (s # <<>> => Len(u) > 1 /\ u[Len(u) - 1] = s[Len(s)])
    BY <1>1, <2>1, LastOfAppend
  <2>5. ~q.seen_n /\ ~q.seen_r => EndedInBoth(u)
    BY <1>2, <2>1, <2>2, <2>4, TcuBytes DEF EndedInBoth
  <2>6. ~(q.seen_n /\ q.seen_r) /\ (q.seen_n => ch = LF) /\ (q.seen_r => ch = CR)
    BY <1>2, <2>1, <2>2
  <2> QED
    BY <2>3, <2>4, <2>5, <2>6 DEF PatchState, u, q
<1>4. CASE ch \notin Ends
  <2> DEFINE c == s \o Completion(t)
  <2>1. u = Append(c, ch) /\ ~q.seen_n /\ ~q.seen_r
    BY <1>4, PatchFlushIs
  <2> HIDE DEF q, s, u
  <2>2. c \in Seq(Byte) /\ InnerEnds(c) /\ EndedInBoth(c)
    <3>1. CASE t.seen_r \/ t.seen_n
      <4> DEFINE x == IF t.seen_r THEN LF ELSE CR
      <4>1. Completion(t) = <<x>> /\ x \in Byte /\ x \in Ends
        BY <3>1, TcuBytes DEF Completion
      <4> HIDE DEF x
      <4>2. c = Append(s, x)
        BY <1>1, <4>1
      <4> HIDE DEF c
      <4>3. c \in Seq(Byte) /\ InnerEnds(c)
        BY <1>1, <1>2, <4>1, <4>2, InnerEndsAppend
      <4>4. /\ c # <<>> /\ Len(c) = Len(s) + 1 /\ c[Len(c)] = x
            /\ (s # <<>> => Len(c) > 1 /\ c[Len(c) - 1] = s[Len(s)])
        BY <1>1, <4>1, <4>2, LastOfAppend
      <4>5. s # <<>> /\ {s[Len(s)], x} = Ends
        BY <1>2, <3>1, TcuBytes DEF x
      <4> QED
        BY <4>3, <4>4, <4>5 DEF EndedInBoth
    <3>2. CASE ~t.seen_r /\ ~t.seen_n
      <4>1. c = s
        BY <1>1, <3>2 DEF Completion
      <4> QED
        BY <1>1, <1>2, <3>2, <4>1
    <3> QED
      BY <3>1, <3>2
  <2> HIDE DEF c
  <2>3. InnerEnds(u)
    BY <2>1, <2>2, InnerEndsAppend
  <2>4. u[Len(u)] = ch
    BY <2>1, <2>2, LastOfAppend
  <2>5. EndedInBoth(u)
    BY <1>4, <2>4 DEF EndedInBoth
  <2> QED
    BY <2>1, <2>3, <2>5 DEF PatchState, u, q
<1> QED
  BY <1>3, <1>4

-----------------------------------------------------------------------------
(* Timestamps.                                                             *)

LineBegins(s, k) == k = 1 \/ s[k - 1] \in {LF, NUL}
StampPart(s, k) == IF LineBegins(s, k) THEN <<STAMP, s[k]>> ELSE <<s[k]>>
StampParts(s) == [k \in DOMAIN s |-> IF k = 1 \/ s[k - 1] \in {LF, NUL} THEN <<STAMP, s[k]>> ELSE <<s[k]>>]

\* The parts of a stamped log
LEMMA StampPartsType ==
    ASSUME NEW s \in Seq(Byte)
    PROVE  /\ StampParts(s) \in Seq(Seq(LogByte)) /\ Len(StampParts(s)) = Len(s)
           /\ \A k \in 1..Len(s) : StampParts(s)[k] = StampPart(s, k)
<1>1. DOMAIN s = 1..Len(s) /\ Len(s) \in Nat /\ \A k \in 1..Len(s) : s[k] \in LogByte
  BY DEF LogByte
<1>2. \A x \in LogByte : <<x>> \in Seq(LogByte) /\ <<STAMP, x>> \in Seq(LogByte)
  BY DEF LogByte
<1> QED
  BY <1>1, <1>2 DEF StampParts, StampPart, LineBegins

\* What one more byte adds to the log
StampedByte(s, ch) ==
    IF s = <<>> \/ s[Len(s)] \in {LF, NUL} THEN <<STAMP, ch>> ELSE <<ch>>

\* Stamping works one byte at a time.
LEMMA StampedAppend ==
    ASSUME NEW s \in Seq(Byte), NEW ch \in Byte
    PROVE  Stamped(Append(s, ch)) = Stamped(s) \o StampedByte(s, ch)
<1> DEFINE u == Append(s, ch)
           n == Len(s)
           p == StampParts(s)
           q == StampParts(u)
           e == StampedByte(s, ch)
<1>1. /\ u \in Seq(Byte) /\ Len(u) = n + 1 /\ n \in Nat
      /\ u[n + 1] = ch /\ \A k \in 1..n : u[k] = s[k]
  BY AppendProperties
<1>2. p \in Seq(Seq(LogByte)) /\ Len(p) = n /\ \A k \in 1..n : p[k] = StampPart(s, k)
  BY StampPartsType
<1> HIDE DEF u
<1>3. q \in Seq(Seq(LogByte)) /\ Len(q) = Len(u) /\ \A k \in 1..Len(u) : q[k] = StampPart(u, k)
  BY <1>1, StampPartsType, Zenon
<1>4. Stamped(s) = FlattenSeq(p) /\ Stamped(u) = FlattenSeq(q)
  BY DEF Stamped, StampParts
<1>5. e \in Seq(LogByte)
  <2>1. ch \in LogByte /\ STAMP \in LogByte
    BY DEF LogByte
  <2>2. <<ch>> \in Seq(LogByte) /\ <<STAMP, ch>> \in Seq(LogByte)
    BY <2>1
  <2> QED
    BY <2>2, Zenon DEF StampedByte
<1>6. s = <<>> <=> n = 0
  BY EmptySeq
<1> HIDE DEF p, q, n
<1>7. q = Append(p, e)
  <2>1. /\ Append(p, e) \in Seq(Seq(LogByte)) /\ Len(Append(p, e)) = n + 1
        /\ Append(p, e)[n + 1] = e /\ \A k \in 1..n : Append(p, e)[k] = p[k]
    <3> HIDE DEF e
    <3> QED
      BY <1>1, <1>2, <1>5
  <2>2. \A k \in 1..(n + 1) : k \in 1..n \/ k = n + 1
    BY <1>1
  <2>3. \A k \in 1..n : q[k] = p[k]
    <3>1. ASSUME NEW k \in 1..n PROVE StampPart(u, k) = StampPart(s, k)
      <4>1. u[k] = s[k] /\ (k # 1 => u[k - 1] = s[k - 1])
        BY <1>1
      <4> QED
        BY <4>1 DEF StampPart, LineBegins
    <3>2. \A k \in 1..n : k \in 1..Len(u)
      BY <1>1
    <3> QED
      BY <1>2, <1>3, <3>1, <3>2
  <2>4. q[n + 1] = e
    <3>1. n + 1 \in 1..Len(u)
      BY <1>1
    <3>2. q[n + 1] = StampPart(u, n + 1)
      BY <1>3, <3>1, Zenon
    <3>3. (n + 1) - 1 = n /\ (n # 0 => n \in 1..n) /\ (n + 1 = 1 <=> n = 0)
      BY <1>1
    <3>4. CASE n = 0
      BY <1>1, <1>6, <3>2, <3>3, <3>4 DEF StampPart, LineBegins, StampedByte
    <3>5. CASE n # 0
      <4>1. u[(n + 1) - 1] = s[n]
        BY <1>1, <3>3, <3>5
      <4>2. LineBegins(u, n + 1) <=> s[n] \in {LF, NUL}
        BY <3>3, <3>5, <4>1 DEF LineBegins
      <4> QED
        BY <1>1, <1>6, <3>2, <3>5, <4>2 DEF StampPart, StampedByte, n
    <3> QED
      BY <3>4, <3>5
  <2> HIDE DEF e
  <2>5. \A k \in 1..(n + 1) : q[k] = Append(p, e)[k]
    BY <2>1, <2>2, <2>3, <2>4, Zenon
  <2> QED
    BY <1>1, <1>3, <2>1, <2>5, SeqEqual
<1>8. FlattenSeq(Append(p, e)) = FlattenSeq(p) \o e
  BY <1>2, <1>5, FlattenAppend
<1> QED
  BY <1>4, <1>7, <1>8, Zenon DEF u

\* A log that was stamped right is after one more byte.
LEMMA StampFlush ==
    ASSUME NEW t \in PtyType, NEW ch \in Byte, StampState(t)
    PROVE  StampState(Flush(t, ch))
<1> DEFINE f == Flush(t, ch)
           s == Plain(t)
           o == t.out
<1>1. /\ f \in PtyType /\ Plain(f) = Append(s, ch)
      /\ f.last_ch = IF log_timestamp THEN ch ELSE t.last_ch
      /\ f.out = o \o (IF StampDue(t) THEN <<STAMP, ch>> ELSE <<ch>>)
  BY FlushIs
<1>2. s \in Seq(Byte) /\ o \in Seq(LogByte)
  BY PlainType
<1>3. IF log_timestamp THEN o = Stamped(s) /\ t.last_ch = (IF s = <<>> THEN NUL ELSE s[Len(s)])
      ELSE o = s
  BY DEF StampState
<1> HIDE DEF f, s, o
<1>4. Append(s, ch) # <<>> /\ Append(s, ch)[Len(Append(s, ch))] = ch
  BY <1>2, LastOfAppend
<1>5. CASE log_timestamp
  <2>1. StampDue(t) <=> s = <<>> \/ s[Len(s)] \in {LF, NUL}
    BY <1>3, <1>5 DEF StampDue
  <2>2. f.out = Stamped(s) \o StampedByte(s, ch)
    BY <1>1, <1>3, <1>5, <2>1 DEF StampedByte
  <2>3. f.out = Stamped(Append(s, ch))
    BY <1>2, <2>2, StampedAppend, Zenon
  <2> QED
    BY <1>1, <1>4, <1>5, <2>3 DEF StampState, f
<1>6. CASE ~log_timestamp
  <2>1. f.out = s \o <<ch>>
    BY <1>1, <1>3, <1>6 DEF StampDue
  <2>2. s \o <<ch>> = Append(s, ch)
    BY <1>2, AppendIsConcat, Zenon
  <2> QED
    BY <1>1, <1>6, <2>1, <2>2 DEF StampState, f
<1> QED
  BY <1>5, <1>6

\* patch2flush_stream stamps what it adds, too.
LEMMA StampStateStep ==
    ASSUME NEW t \in PtyType, NEW ch \in Byte, StampState(t)
    PROVE  StampState(PatchFlush(t, ch))
<1>1. \A r \in PtyType : StampState(r) => StampState(Clear(r))
  BY ClearIs DEF StampState
<1>2. ch \in Ends => Note(t, ch) \in PtyType /\ StampState(Note(t, ch))
  BY NoteIs DEF StampState
<1>3. Complete(t) \in PtyType /\ StampState(Complete(t))
  <2>1. \A c \in {LF, CR} : Flush(t, c) \in PtyType /\ StampState(Flush(t, c))
    BY TcuBytes, FlushIs, StampFlush
  <2> QED
    BY <1>1, <2>1, CompleteIs
<1> DEFINE m == IF ch \in {LF, CR} THEN Note(t, ch) ELSE Complete(t)
           a == Flush(m, ch)
<1>4. m \in PtyType /\ StampState(m)
  BY <1>2, <1>3 DEF Ends
<1>5. PatchFlush(t, ch) \in {Flush(t, ch), a, Clear(a)}
  BY DEF PatchFlush
<1> HIDE DEF m
<1>6. a \in PtyType /\ StampState(a)
  BY <1>4, FlushIs, StampFlush
<1>7. StampState(Flush(t, ch))
  BY StampFlush
<1> HIDE DEF a
<1> QED
  BY <1>1, <1>5, <1>6, <1>7

-----------------------------------------------------------------------------
(* What a PTY has of what it was given.                                    *)

\* The text grows by bytes that are no line ends.
LEMMA TextAppend ==
    ASSUME NEW s \in Seq(Byte), NEW ch \in Byte
    PROVE  Text(Append(s, ch)) = IF ch \in Ends THEN Text(s) ELSE Append(Text(s), ch)
BY WithoutAppend DEF Text

\* Line ends that are right so far were right before the last byte.
LEMMA EndedBefore ==
    ASSUME NEW s \in Seq(Byte), NEW ch \in Byte, EndedSoFar(Append(s, ch))
    PROVE  /\ EndedSoFar(s)
           /\ ch = LF => s # <<>> /\ s[Len(s)] = CR
           /\ s # <<>> /\ s[Len(s)] = CR => ch = LF
<1> DEFINE u == Append(s, ch)
           n == Len(s)
<1>1. /\ Len(u) = n + 1 /\ n \in Nat
      /\ u[n + 1] = ch /\ \A k \in 1..n : u[k] = s[k]
  BY AppendProperties
<1>2. s = <<>> <=> n = 0
  BY EmptySeq
<1>3. \A k \in 1..(n + 1) : /\ u[k] = LF => k > 1 /\ u[k - 1] = CR
                            /\ u[k] = CR => k = n + 1 \/ u[k + 1] = LF
  BY <1>1, Zenon DEF EndedSoFar
<1> HIDE DEF u, n
<1>4. ASSUME NEW k \in 1..n
      PROVE  /\ s[k] = LF => k > 1 /\ s[k - 1] = CR
             /\ s[k] = CR => k = n \/ s[k + 1] = LF
  <2>1. k \in 1..(n + 1) /\ k # n + 1
    BY <1>1
  <2>2. u[k] = s[k] /\ (k > 1 => u[k - 1] = s[k - 1]) /\ (k # n => u[k + 1] = s[k + 1])
    BY <1>1
  <2> QED
    BY <1>3, <2>1, <2>2
<1>5. ch = LF => n # 0 /\ s[n] = CR
  <2>1. n + 1 \in 1..(n + 1) /\ (n + 1 > 1 => n \in 1..n /\ n # 0) /\ (n + 1) - 1 = n
    BY <1>1
  <2> QED
    BY <1>1, <1>3, <2>1
<1>6. n # 0 /\ s[n] = CR => ch = LF
  <2>1. n # 0 => n \in 1..n /\ n \in 1..(n + 1) /\ n # n + 1
    BY <1>1
  <2> QED
    BY <1>1, <1>3, <2>1
<1> QED
  BY <1>2, <1>4, <1>5, <1>6 DEF EndedSoFar, n

\* One more byte given to a PTY.
LEMMA FollowsStep ==
    ASSUME NEW s \in Seq(Byte), NEW t \in PtyType, NEW ch \in Byte, Follows(patch, s, t)
    PROVE  Follows(patch, Append(s, ch), PatchFlush(t, ch))
<1> DEFINE q == PatchFlush(t, ch)
           p == Plain(t)
           u == Append(s, ch)
           c == p \o Completion(t)
<1>1. p \in Seq(Byte) /\ t.seen_n \in BOOLEAN /\ t.seen_r \in BOOLEAN
  BY PlainType DEF PtyType
<1>2. CASE ~patch
  BY <1>2, PatchFlushIs DEF Follows
<1>3. CASE patch
  <2>1. /\ Text(p) = Text(s)
        /\ EndedSoFar(s) => /\ p = s /\ ~t.seen_n
                            /\ t.seen_r <=> (s # <<>> /\ s[Len(s)] = CR)
    BY <1>3 DEF Follows
  <2>2. u[Len(u)] = ch /\ u # <<>>
    BY LastOfAppend
  <2>3. EndedSoFar(u) => /\ EndedSoFar(s)
                         /\ ch = LF => s # <<>> /\ s[Len(s)] = CR
                         /\ s # <<>> /\ s[Len(s)] = CR => ch = LF
    BY EndedBefore
  <2>4. CASE ch \in Ends
    <3>1. /\ Plain(q) = Append(p, ch)
          /\ q.seen_n = ((t.seen_n \/ ch = LF) /\ ~(t.seen_r \/ ch = CR))
          /\ q.seen_r = ((t.seen_r \/ ch = CR) /\ ~(t.seen_n \/ ch = LF))
      BY <1>3, <2>4, PatchFlushIs
    <3>2. Text(Append(p, ch)) = Text(p) /\ Text(u) = Text(s)
      BY <1>1, <2>4, TextAppend
    <3>3. ch = LF \/ ch = CR
      BY <2>4, TcuBytes
    <3> HIDE DEF q, p, u
    <3>4. ASSUME EndedSoFar(u)
          PROVE  Plain(q) = u /\ ~q.seen_n /\ (q.seen_r <=> ch = CR)
      <4>1. /\ p = s /\ ~t.seen_n /\ (ch = LF => t.seen_r)
        BY <2>1, <2>3, <3>4
      <4>2. Plain(q) = u
        BY <3>1, <4>1 DEF u
      <4> QED
        BY <1>1, <3>1, <3>3, <4>1, <4>2, TcuBytes
    <3> QED
      BY <1>3, <2>1, <2>2, <3>1, <3>2, <3>4 DEF Follows, q, u
  <2>5. CASE ch \notin Ends
    <3>1. Plain(q) = Append(c, ch) /\ ~q.seen_n /\ ~q.seen_r
      BY <1>3, <2>5, PatchFlushIs
    <3>2. c \in Seq(Byte) /\ Text(c) = Text(p) /\ (~t.seen_n /\ ~t.seen_r => c = p)
      <4>1. CASE t.seen_r \/ t.seen_n
        <5>1. PICK x \in Ends : Completion(t) = <<x>>
          BY <4>1, TcuBytes DEF Completion
        <5>2. c = Append(p, x) /\ x \in Byte
          BY <1>1, <5>1, TcuBytes, AppendIsConcat
        <5> HIDE DEF c, p
        <5> QED
          BY <1>1, <4>1, <5>1, <5>2, TextAppend
      <4>2. CASE ~t.seen_r /\ ~t.seen_n
        <5>1. c = p
          BY <1>1, <4>2, ConcatEmptySeq DEF Completion
        <5> QED
          BY <1>1, <5>1
      <4> QED
        BY <4>1, <4>2
    <3> HIDE DEF c, p, q, u
    <3>3. Text(Append(c, ch)) = Append(Text(p), ch) /\ Text(u) = Append(Text(s), ch)
      BY <2>5, <3>2, TextAppend DEF u
    <3>4. ch # LF /\ ch # CR
      BY <2>5, TcuBytes
    <3>5. ASSUME EndedSoFar(u) PROVE Plain(q) = u
      <4>1. p = s /\ ~t.seen_n /\ ~t.seen_r
        BY <2>1, <2>3, <3>4, <3>5
      <4> QED
        BY <3>1, <3>2, <4>1 DEF u
    <3> QED
      BY <1>3, <2>1, <2>2, <3>1, <3>3, <3>4, <3>5 DEF Follows, q, u
  <2> QED
    BY <2>4, <2>5
<1> QED
  BY <1>2, <1>3

\* What a PTY follows it renders.
LEMMA FollowsRenders ==
    ASSUME NEW s \in Seq(Byte), NEW t, Follows(patch, s, t)
    PROVE  Renders(s, Plain(t))
<1>1. Len(s) \in Nat /\ DOMAIN s = 1..Len(s)
  OBVIOUS
<1>2. WellEnded(s) => EndedSoFar(s)
  BY <1>1 DEF WellEnded, EndedSoFar
<1> QED
  BY <1>2 DEF Follows, Renders

\* A new PTY has nothing.
LEMMA NewPtyState ==
    /\ NewPty \in PtyType /\ Plain(NewPty) = <<>>
    /\ PatchState(NewPty) /\ StampState(NewPty) /\ Follows(patch, <<>>, NewPty)
<1>1. <<>> \in Seq(LogByte) /\ NUL \in Byte
  BY TcuBytes
<1>2. NewPty \in PtyType
  BY <1>1 DEF NewPty, PtyType
<1>3. /\ NewPty.out = <<>> /\ NewPty.last_ch = NUL /\ NewPty.seen_n = FALSE
      /\ NewPty.seen_r = FALSE
  BY DEF NewPty
<1>4. Plain(NewPty) = <<>>
  BY <1>3, WithoutEmpty DEF Plain
<1>5. [k \in DOMAIN <<>> |-> IF k = 1 \/ <<>>[k - 1] \in {LF, NUL} THEN <<STAMP, <<>>[k]>>
                             ELSE << <<>>[k] >>] = <<>>
  OBVIOUS
<1>6. Stamped(<<>>) = <<>>
  BY <1>5, FlattenEmpty DEF Stamped
<1>7. Len(<<>>) = 0
  OBVIOUS
<1> HIDE DEF NewPty
<1>8. PatchState(NewPty)
  BY <1>3, <1>4, <1>7 DEF PatchState, InnerEnds, EndedInBoth
<1>9. StampState(NewPty)
  BY <1>3, <1>4, <1>6 DEF StampState
<1>10. Follows(patch, <<>>, NewPty)
  BY <1>3, <1>4 DEF Follows
<1> QED
  BY <1>2, <1>4, <1>8, <1>9, <1>10

-----------------------------------------------------------------------------
(* The sinks.                                                              *)

SinkByte == PrintBytes \cup {Return}

\* PutBy for any contents of the device
PutIn(s, i) ==
    FlattenSeq([k \in DOMAIN s |-> IF s[k].from = i THEN <<s[k].byte>> ELSE <<>>])
PutPart(x, i) == IF x.from = i THEN <<x.byte>> ELSE <<>>
PutParts(s, i) == [k \in DOMAIN s |-> IF s[k].from = i THEN <<s[k].byte>> ELSE <<>>]

Device == [from: SinkIfs, byte: SinkByte]

\* The parts of what an interface has put
LEMMA PutPartsType ==
    ASSUME NEW s \in Seq(Device), NEW i
    PROVE  /\ PutParts(s, i) \in Seq(Seq(SinkByte)) /\ Len(PutParts(s, i)) = Len(s)
           /\ \A k \in 1..Len(s) : PutParts(s, i)[k] = PutPart(s[k], i)
<1>1. DOMAIN s = 1..Len(s) /\ Len(s) \in Nat /\ \A k \in 1..Len(s) : s[k] \in Device
  OBVIOUS
<1>2. \A x \in Device : (IF x.from = i THEN <<x.byte>> ELSE <<>>) \in Seq(SinkByte)
  BY DEF Device
<1> QED
  BY <1>1, <1>2 DEF PutParts, PutPart

\* A byte on the device is the next one of its interface.
LEMMA PutInAppend ==
    ASSUME NEW s \in Seq(Device), NEW x \in Device, NEW i
    PROVE  /\ PutIn(s, i) \in Seq(SinkByte) /\ PutPart(x, i) \in Seq(SinkByte)
           /\ PutIn(Append(s, x), i) = PutIn(s, i) \o PutPart(x, i)
<1> DEFINE u == Append(s, x)
           n == Len(s)
           p == PutParts(s, i)
           q == PutParts(u, i)
           e == PutPart(x, i)
<1>1. /\ u \in Seq(Device) /\ Len(u) = n + 1 /\ n \in Nat
      /\ u[n + 1] = x /\ \A k \in 1..n : u[k] = s[k]
  BY AppendProperties
<1>2. p \in Seq(Seq(SinkByte)) /\ Len(p) = n /\ \A k \in 1..n : p[k] = PutPart(s[k], i)
  BY PutPartsType
<1> HIDE DEF u
<1>3. q \in Seq(Seq(SinkByte)) /\ Len(q) = Len(u) /\ \A k \in 1..Len(u) : q[k] = PutPart(u[k], i)
  BY <1>1, PutPartsType, Zenon
<1>4. PutIn(s, i) = FlattenSeq(p) /\ PutIn(u, i) = FlattenSeq(q)
  BY DEF PutIn, PutParts
<1>5. e \in Seq(SinkByte)
  BY DEF PutPart, Device
<1> HIDE DEF p, q, n, e
<1>6. q = Append(p, e)
  <2>1. /\ Append(p, e) \in Seq(Seq(SinkByte)) /\ Len(Append(p, e)) = n + 1
        /\ Append(p, e)[n + 1] = e /\ \A k \in 1..n : Append(p, e)[k] = p[k]
    BY <1>1, <1>2, <1>5
  <2>2. n + 1 \in 1..Len(u) /\ (\A k \in 1..n : k \in 1..Len(u))
        /\ \A k \in 1..(n + 1) : k \in 1..n \/ k = n + 1
    BY <1>1
  <2>3. q[n + 1] = e /\ \A k \in 1..n : q[k] = p[k]
    BY <1>1, <1>2, <1>3, <2>2, Zenon DEF e
  <2>4. \A k \in 1..(n + 1) : q[k] = Append(p, e)[k]
    BY <2>1, <2>2, <2>3, Zenon
  <2> QED
    BY <1>1, <1>3, <2>1, <2>4, SeqEqual
<1>7. FlattenSeq(Append(p, e)) = FlattenSeq(p) \o e /\ FlattenSeq(p) \in Seq(SinkByte)
  BY <1>2, <1>5, FlattenAppend, FlattenType
<1> QED
  BY <1>4, <1>5, <1>6, <1>7, Zenon DEF u, e

\* The first of several bytes is put: the interface has put one more and has one less.
LEMMA PutFirst ==
    ASSUME NEW S, NEW a \in Seq(S), NEW x \in S, NEW b \in Seq(S)
    PROVE  a \o (<<x>> \o b) = (a \o <<x>>) \o b
OBVIOUS

\* What is still in the buffer is a sequence of bytes.
LEMMA InBatchType ==
    ASSUME NEW b \in [head: Nat, tail: Nat, buf: [1..BufSize -> PrintBytes]], Sound(b)
    PROVE  /\ b.buf \in Seq(PrintBytes)
           /\ SubSeq(b.buf, b.head + 1, b.tail) \in Seq(SinkByte)
           /\ b.head = b.tail => SubSeq(b.buf, b.head + 1, b.tail) = <<>>
           /\ b.head < b.tail =>
                 /\ b.buf[b.head + 1] \in SinkByte
                 /\ SubSeq(b.buf, b.head + 2, b.tail) \in Seq(SinkByte)
                 /\ SubSeq(b.buf, b.head + 1, b.tail) =
                       <<b.buf[b.head + 1]>> \o SubSeq(b.buf, b.head + 2, b.tail)
<1> DEFINE f == b.buf
           h == b.head
           t == b.tail
<1>1. /\ h \in Nat /\ t \in Nat /\ h <= t /\ t <= BufSize /\ BufSize \in Nat
      /\ f \in [1..BufSize -> PrintBytes]
  BY SinkAssumption DEF Sound
<1> HIDE DEF f, h, t
<1>2. f \in Seq(PrintBytes) /\ f \in Seq(SinkByte) /\ Len(f) = BufSize
  BY <1>1 DEF SinkByte
<1>3. ASSUME NEW m \in Nat, NEW n \in Nat, m <= n + 1, n <= BufSize, m >= 1
      PROVE  /\ SubSeq(f, m, n) \in Seq(SinkByte)
             /\ Len(SubSeq(f, m, n)) = (n - m) + 1
             /\ \A k \in 1..((n - m) + 1) : SubSeq(f, m, n)[k] = f[(m + k) - 1]
  BY <1>1, <1>2, <1>3
<1>4. /\ SubSeq(f, h + 1, t) \in Seq(SinkByte)
      /\ Len(SubSeq(f, h + 1, t)) = t - h
      /\ \A k \in 1..(t - h) : SubSeq(f, h + 1, t)[k] = f[h + k]
  <2> DEFINE m == h + 1
  <2>1. /\ m \in Nat /\ m <= t + 1 /\ m >= 1 /\ (t - m) + 1 = t - h
        /\ \A k \in 1..(t - h) : (m + k) - 1 = h + k
    BY <1>1
  <2> HIDE DEF m
  <2>2. /\ SubSeq(f, m, t) \in Seq(SinkByte) /\ Len(SubSeq(f, m, t)) = (t - m) + 1
        /\ \A k \in 1..((t - m) + 1) : SubSeq(f, m, t)[k] = f[(m + k) - 1]
    BY <1>1, <1>3, <2>1, Zenon
  <2>3. /\ SubSeq(f, m, t) \in Seq(SinkByte) /\ Len(SubSeq(f, m, t)) = t - h
        /\ \A k \in 1..(t - h) : SubSeq(f, m, t)[k] = f[h + k]
    BY <2>1, <2>2, Zenon
  <2> QED
    BY <2>3 DEF m
<1>5. h = t => SubSeq(f, h + 1, t) = <<>>
  BY <1>1, <1>4, EmptySeq
<1>6. ASSUME h < t
      PROVE  /\ f[h + 1] \in SinkByte
             /\ SubSeq(f, h + 2, t) \in Seq(SinkByte)
             /\ SubSeq(f, h + 1, t) = <<f[h + 1]>> \o SubSeq(f, h + 2, t)
  <2> DEFINE r == SubSeq(f, h + 2, t)
             w == SubSeq(f, h + 1, t)
             x == f[h + 1]
  <2>1. /\ r \in Seq(SinkByte) /\ Len(r) = (t - h) - 1
        /\ \A k \in 1..((t - h) - 1) : r[k] = f[(h + 1) + k]
    <3> DEFINE m == h + 2
    <3>1. /\ m \in Nat /\ m <= t + 1 /\ m >= 1 /\ (t - m) + 1 = (t - h) - 1
          /\ \A k \in 1..((t - h) - 1) : (m + k) - 1 = (h + 1) + k
      BY <1>1, <1>6
    <3> HIDE DEF m
    <3>2. /\ SubSeq(f, m, t) \in Seq(SinkByte) /\ Len(SubSeq(f, m, t)) = (t - m) + 1
          /\ \A k \in 1..((t - m) + 1) : SubSeq(f, m, t)[k] = f[(m + k) - 1]
      BY <1>1, <1>3, <3>1, Zenon
    <3>3. /\ SubSeq(f, m, t) \in Seq(SinkByte) /\ Len(SubSeq(f, m, t)) = (t - h) - 1
          /\ \A k \in 1..((t - h) - 1) : SubSeq(f, m, t)[k] = f[(h + 1) + k]
      BY <3>1, <3>2, Zenon
    <3> QED
      BY <3>3 DEF m
  <2>2. x \in SinkByte
    BY <1>1, <1>6 DEF SinkByte
  <2>3. w \in Seq(SinkByte) /\ Len(w) = t - h /\ \A k \in 1..(t - h) : w[k] = f[h + k]
    BY <1>4
  <2> HIDE DEF r, w
  <2>4. /\ <<x>> \o r \in Seq(SinkByte) /\ Len(<<x>> \o r) = 1 + Len(r)
        /\ (<<x>> \o r)[1] = x /\ \A k \in 2..(1 + Len(r)) : (<<x>> \o r)[k] = r[k - 1]
    <3> HIDE DEF x
    <3> QED
      BY <2>1, <2>2
  <2>5. Len(<<x>> \o r) = Len(w)
    BY <1>1, <2>1, <2>3, <2>4
  <2>6. ASSUME NEW k \in 1..(t - h) PROVE w[k] = (<<x>> \o r)[k]
    <3>1. CASE k = 1
      BY <1>1, <2>3, <2>4, <2>6, <3>1
    <3>2. CASE k # 1
      <4>1. /\ k \in 2..(1 + Len(r)) /\ k - 1 \in 1..((t - h) - 1) /\ (h + 1) + (k - 1) = h + k
        BY <1>1, <2>1, <2>6, <3>2
      <4> QED
        BY <2>1, <2>3, <2>4, <2>6, <4>1, SMTT(30)
    <3> QED
      BY <3>1, <3>2
  <2>7. w = <<x>> \o r
    BY <2>3, <2>4, <2>5, <2>6, SeqEqual
  <2> QED
    BY <2>1, <2>2, <2>7 DEF r, w
<1> QED
  BY <1>2, <1>4, <1>5, <1>6 DEF f, h, t

SinkInv == SinkTypeOK /\ SinkState

\* What the invariant says of the sinks, in terms of PutIn
LEMMA SinkFacts ==
    ASSUME SinkInv
    PROVE  /\ batch \in [head: Nat, tail: Nat, buf: [1..BufSize -> PrintBytes \cup {0}]]
           /\ in_call \in BOOLEAN /\ char_out \in [CharIfs -> Seq(SinkByte)]
           /\ serial \in Seq(Device) /\ handed \in [SinkIfs -> Seq(SinkByte)]
           /\ \A i \in SinkIfs : PutIn(serial, i) \in Seq(SinkByte)
           /\ \A i \in CharIfs : handed[i] = PutIn(serial, i) \o char_out[i]
           /\ handed["batch"] = PutIn(serial, "batch") \o InBatch
           /\ in_call => batch \in [head: Nat, tail: Nat, buf: [1..BufSize -> PrintBytes]]
<1>1. serial \in Seq(Device)
  BY DEF SinkInv, SinkTypeOK, RSTypeOK, Device, SinkByte
<1>2. \A i \in SinkIfs : PutIn(serial, i) \in Seq(SinkByte)
  <2> SUFFICES ASSUME NEW i \in SinkIfs PROVE PutIn(serial, i) \in Seq(SinkByte)
    OBVIOUS
  <2>1. PutParts(serial, i) \in Seq(Seq(SinkByte))
    BY <1>1, PutPartsType
  <2> QED
    BY <2>1, FlattenType DEF PutIn, PutParts
<1>3. \A i : PutBy(i) = PutIn(serial, i)
  BY DEF PutBy, PutIn
<1> QED
  BY <1>1, <1>2, <1>3 DEF SinkInv, SinkTypeOK, SinkState, RSTypeOK, Device, SinkByte

\* How the new state is shown to keep the invariant
LEMMA SinkGoal ==
    ASSUME sink' \in {"passthru", "debug", "null"},
           batch' \in [head: Nat, tail: Nat, buf: [1..BufSize -> PrintBytes \cup {0}]],
           in_call' \in BOOLEAN, char_out' \in [CharIfs -> Seq(SinkByte)],
           serial' \in Seq(Device), handed' \in [SinkIfs -> Seq(SinkByte)],
           in_call' => batch'.buf \in [1..BufSize -> PrintBytes],
           \A i \in CharIfs : handed'[i] = PutIn(serial', i) \o char_out'[i],
           handed'["batch"] = PutIn(serial', "batch") \o InBatch',
           ~in_call' => batch'.head = batch'.tail
    PROVE  SinkInv'
<1>1. \A i : PutBy(i)' = PutIn(serial', i)
  BY DEF PutBy, PutIn
<1> QED
  BY <1>1 DEF SinkInv, SinkTypeOK, SinkState, RSTypeOK, Device, SinkByte

\* A character is printed.
LEMMA PutCharKeeps ==
    ASSUME SinkInv, NEW i \in CharIfs, NEW c \in PrintBytes, PutChar(i, c)
    PROVE  SinkInv'
<1> DEFINE p == ProcessedOrRaw(i, c)
<1>1. /\ char_out[i] = <<>> /\ char_out' = [char_out EXCEPT ![i] = p]
      /\ handed' = [handed EXCEPT ![i] = @ \o p] /\ UNCHANGED <<sink, batch, in_call, serial>>
  BY DEF PutChar
<1>2. p \in Seq(SinkByte)
  <2>1. c \in SinkByte /\ Return \in SinkByte
    BY DEF SinkByte
  <2>2. <<c>> \in Seq(SinkByte) /\ <<Return, c>> \in Seq(SinkByte)
    BY <2>1
  <2> QED
    BY <2>2, Zenon DEF ProcessedOrRaw
<1>3. i \in SinkIfs /\ i # "batch" /\ CharIfs \subseteq SinkIfs
  BY DEF CharIfs, SinkIfs
<1> HIDE DEF p
<1>4. handed[i] = PutIn(serial, i)
  BY <1>1, <1>3, SinkFacts, ConcatEmptySeq
<1>5. char_out' \in [CharIfs -> Seq(SinkByte)] /\ handed' \in [SinkIfs -> Seq(SinkByte)]
  <2>1. handed[i] \o p \in Seq(SinkByte)
    BY <1>2, <1>3, SinkFacts
  <2> QED
    BY <1>1, <1>2, <1>3, <2>1, SinkFacts
<1>6. \A j \in CharIfs : handed'[j] = PutIn(serial', j) \o char_out'[j]
  BY <1>1, <1>3, <1>4, SinkFacts
<1>7. handed'["batch"] = handed["batch"] /\ InBatch' = InBatch
  BY <1>1, <1>3, SinkFacts DEF InBatch, Sound, SinkIfs
<1> QED
  BY <1>1, <1>5, <1>6, <1>7, SinkFacts, SinkGoal DEF SinkInv, SinkTypeOK, RSTypeOK, SinkState

\* A character is put on the device.
LEMMA CharToSerialKeeps ==
    ASSUME SinkInv, NEW i \in CharIfs, CharToSerial(i)
    PROVE  SinkInv' /\ \E x \in Device : serial' = Append(serial, x)
<1> DEFINE o == char_out[i]
           x == [from |-> i, byte |-> Head(o)]
<1>1. /\ o # <<>> /\ serial' = Append(serial, x) /\ char_out' = [char_out EXCEPT ![i] = Tail(@)]
      /\ UNCHANGED <<sink, batch, in_call, handed>>
  BY DEF CharToSerial
<1>2. i \in SinkIfs /\ i # "batch" /\ CharIfs \subseteq SinkIfs
  BY DEF CharIfs, SinkIfs
<1>3. o \in Seq(SinkByte) /\ Head(o) \in SinkByte /\ Tail(o) \in Seq(SinkByte)
      /\ o = <<Head(o)>> \o Tail(o)
  BY <1>1, SinkFacts, HeadAndTail
<1>4. x \in Device /\ x.from = i /\ x.byte = Head(o)
  BY <1>2, <1>3 DEF Device
<1> HIDE DEF x
<1>5. serial' \in Seq(Device) /\ char_out' \in [CharIfs -> Seq(SinkByte)]
  BY <1>1, <1>3, <1>4, SinkFacts
<1>6. \A j \in SinkIfs : PutIn(serial', j) = PutIn(serial, j) \o PutPart(x, j)
  BY <1>1, <1>4, PutInAppend, SinkFacts
<1>7. \A j \in SinkIfs \ {i} : PutIn(serial', j) = PutIn(serial, j)
  BY <1>4, <1>6, SinkFacts, ConcatEmptySeq DEF PutPart
<1>8. handed[i] = PutIn(serial', i) \o Tail(o)
  <2>1. handed[i] = PutIn(serial, i) \o o
    BY SinkFacts
  <2>2. PutIn(serial', i) = PutIn(serial, i) \o <<Head(o)>>
    BY <1>2, <1>4, <1>6 DEF PutPart
  <2> HIDE DEF o
  <2>3. PutIn(serial, i) \o (<<Head(o)>> \o Tail(o)) = (PutIn(serial, i) \o <<Head(o)>>) \o Tail(o)
    <3>1. PutIn(serial, i) \in Seq(SinkByte)
      BY <1>2, SinkFacts
    <3> DEFINE a == PutIn(serial, i)
               y == Head(o)
               b == Tail(o)
    <3>2. a \in Seq(SinkByte) /\ y \in SinkByte /\ b \in Seq(SinkByte)
      BY <1>3, <3>1
    <3> HIDE DEF a, y, b
    <3>3. a \o (<<y>> \o b) = (a \o <<y>>) \o b
      BY <3>2, PutFirst
    <3> QED
      BY <3>3 DEF a, y, b
  <2> QED
    BY <1>3, <2>1, <2>2, <2>3, Zenon
<1>9. \A j \in CharIfs : handed'[j] = PutIn(serial', j) \o char_out'[j]
  BY <1>1, <1>2, <1>7, <1>8, SinkFacts
<1>10. handed'["batch"] = PutIn(serial', "batch") \o InBatch'
  <2>1. InBatch' = InBatch
    BY <1>1 DEF InBatch, Sound
  <2> QED
    BY <1>1, <1>2, <1>7, <2>1, SinkFacts DEF SinkIfs
<1>11. SinkInv'
  BY <1>1, <1>5, <1>9, <1>10, SinkFacts, SinkGoal DEF SinkInv, SinkTypeOK, RSTypeOK, SinkState
<1> QED
  BY <1>1, <1>4, <1>11

\* The batch interface is called, with any indices.
LEMMA CallBatchKeeps ==
    ASSUME SinkInv, NEW b \in Batches, CallBatch(b)
    PROVE  SinkInv'
<1>1. /\ ~in_call /\ batch' = b /\ in_call' = TRUE /\ UNCHANGED <<sink, char_out, serial>>
      /\ handed' = IF Sound(b) /\ sink # "null"
                   THEN [handed EXCEPT !["batch"] = @ \o SubSeq(b.buf, b.head + 1, b.tail)]
                   ELSE handed
  BY DEF CallBatch
<1>2. b \in [head: Nat, tail: Nat, buf: [1..BufSize -> PrintBytes]]
  BY TcuLinkAssumption
<1>3. b \in [head: Nat, tail: Nat, buf: [1..BufSize -> PrintBytes \cup {0}]]
  BY <1>2
<1>4. InBatch = <<>> /\ handed["batch"] = PutIn(serial, "batch")
  BY <1>1, SinkFacts, ConcatEmptySeq DEF InBatch, SinkIfs
<1> DEFINE e == SubSeq(b.buf, b.head + 1, b.tail)
<1>5. Sound(b) => e \in Seq(SinkByte)
  BY <1>2, InBatchType
<1>6. InBatch' = IF sink # "null" /\ Sound(b) THEN e ELSE <<>>
  BY <1>1 DEF InBatch, Sound
<1> HIDE DEF e
<1>7. \A j \in CharIfs : j # "batch" /\ j \in SinkIfs
  BY DEF CharIfs, SinkIfs
<1>8. CASE Sound(b) /\ sink # "null"
  <2>1. handed["batch"] \o e \in Seq(SinkByte)
    BY <1>5, <1>8, SinkFacts DEF SinkIfs
  <2>2. handed' = [handed EXCEPT !["batch"] = @ \o e]
    BY <1>1, <1>8 DEF e
  <2>3. /\ handed' \in [SinkIfs -> Seq(SinkByte)] /\ \A j \in CharIfs : handed'[j] = handed[j]
        /\ handed'["batch"] = handed["batch"] \o e
    BY <1>7, <2>1, <2>2, SinkFacts DEF SinkIfs
  <2> QED
    BY <1>1, <1>2, <1>3, <1>4, <1>6, <1>8, <2>3, SinkFacts, SinkGoal DEF SinkInv, SinkTypeOK, RSTypeOK
<1>9. CASE ~(Sound(b) /\ sink # "null")
  <2>1. handed' = handed /\ InBatch' = InBatch
    BY <1>1, <1>4, <1>6, <1>9
  <2> QED
    BY <1>1, <1>2, <1>3, <2>1, SinkFacts, SinkGoal DEF SinkInv, SinkTypeOK, RSTypeOK
<1> QED
  BY <1>8, <1>9

\* A byte of the batch is put on the device.
LEMMA BatchToSerialKeeps ==
    ASSUME SinkInv, BatchToSerial
    PROVE  SinkInv' /\ \E x \in Device : serial' = Append(serial, x)
<1> DEFINE f == batch.buf
           h == batch.head
           t == batch.tail
           x == [from |-> "batch", byte |-> f[h + 1]]
           r == SubSeq(f, h + 2, t)
<1>1. /\ in_call /\ sink # "null" /\ Sound(batch) /\ h < t
      /\ serial' = Append(serial, x) /\ batch' = [batch EXCEPT !.head = @ + 1]
      /\ UNCHANGED <<sink, in_call, char_out, handed>>
  BY DEF BatchToSerial
<1>2. batch \in [head: Nat, tail: Nat, buf: [1..BufSize -> PrintBytes]]
  BY <1>1, SinkFacts
<1>3. /\ f[h + 1] \in SinkByte /\ r \in Seq(SinkByte)
      /\ SubSeq(f, h + 1, t) = <<f[h + 1]>> \o r
  BY <1>1, <1>2, InBatchType
<1>4. x \in Device /\ x.from = "batch" /\ x.byte = f[h + 1]
  BY <1>3 DEF Device, SinkIfs
<1>5. /\ batch' \in [head: Nat, tail: Nat, buf: [1..BufSize -> PrintBytes]]
      /\ batch'.head = h + 1 /\ batch'.tail = t /\ batch'.buf = f
  BY <1>1, <1>2
<1>6. InBatch = SubSeq(f, h + 1, t)
  BY <1>1 DEF InBatch
<1>7. InBatch' = r
  <2>1. Sound(batch')
    BY <1>1, <1>2, <1>5 DEF Sound
  <2>2. h \in Nat /\ (h + 1) + 1 = h + 2
    BY <1>2
  <2>3. InBatch' = SubSeq(f, (h + 1) + 1, t)
    BY <1>1, <1>5, <2>1 DEF InBatch, Sound
  <2> QED
    BY <2>2, <2>3
<1> HIDE DEF x, f, h, t, r
<1>8. serial' \in Seq(Device)
  BY <1>1, <1>4, SinkFacts
<1>9. \A j \in SinkIfs : PutIn(serial', j) = PutIn(serial, j) \o PutPart(x, j)
  BY <1>1, <1>4, PutInAppend, SinkFacts
<1>10. \A j \in CharIfs : PutIn(serial', j) = PutIn(serial, j)
  BY <1>4, <1>9, SinkFacts, ConcatEmptySeq DEF PutPart, CharIfs, SinkIfs
<1>11. handed["batch"] = PutIn(serial', "batch") \o r
  <2> DEFINE y == f[h + 1]
             a == PutIn(serial, "batch")
  <2>1. handed["batch"] = a \o (<<y>> \o r)
    BY <1>3, <1>6, SinkFacts
  <2>2. PutIn(serial', "batch") = a \o <<y>>
    BY <1>4, <1>9 DEF PutPart, SinkIfs
  <2>3. a \in Seq(SinkByte) /\ y \in SinkByte
    BY <1>3, SinkFacts DEF SinkIfs
  <2> HIDE DEF a, y
  <2>4. a \o (<<y>> \o r) = (a \o <<y>>) \o r
    BY <1>3, <2>3, PutFirst
  <2> QED
    BY <2>1, <2>2, <2>4, Zenon
<1>12. /\ handed'["batch"] = PutIn(serial', "batch") \o InBatch'
       /\ \A j \in CharIfs : handed'[j] = PutIn(serial', j) \o char_out'[j]
  BY <1>1, <1>7, <1>10, <1>11, SinkFacts
<1>13. SinkInv'
  BY <1>1, <1>5, <1>8, <1>12, SinkFacts, SinkGoal DEF SinkInv, SinkTypeOK, RSTypeOK
<1> QED
  BY <1>1, <1>4, <1>13

\* The end of the call, and a call that is refused: the buffer is empty.
LEMMA BatchEndsKeeps ==
    ASSUME SinkInv, RejectBatch \/ ReturnBatch
    PROVE  SinkInv' /\ serial' = serial
<1>1. /\ in_call /\ in_call' = FALSE /\ UNCHANGED <<sink, char_out, serial, handed>>
      /\ (~Sound(batch) \/ sink = "null" \/ batch.head = batch.tail)
  BY DEF RejectBatch, ReturnBatch
<1>2. batch \in [head: Nat, tail: Nat, buf: [1..BufSize -> PrintBytes]]
  BY <1>1, SinkFacts
<1>3. /\ batch' \in [head: Nat, tail: Nat, buf: [1..BufSize -> PrintBytes \cup {0}]]
      /\ batch'.head = batch'.tail
  <2>1. /\ batch.head \in Nat /\ batch.tail \in Nat
        /\ batch \in [head: Nat, tail: Nat, buf: [1..BufSize -> PrintBytes \cup {0}]]
    BY SinkFacts
  <2>2. CASE RejectBatch
    BY <2>1, <2>2 DEF RejectBatch
  <2>3. CASE UNCHANGED batch /\ batch.head = batch.tail
    BY <2>1, <2>3
  <2>4. CASE batch' = [batch EXCEPT !.head = batch.tail]
    BY <2>1, <2>4
  <2> QED
    BY <2>2, <2>3, <2>4 DEF ReturnBatch
<1>4. InBatch = <<>>
  BY <1>1, <1>2, InBatchType DEF InBatch
<1>5. InBatch' = <<>>
  BY <1>1 DEF InBatch
<1>6. SinkInv'
  BY <1>1, <1>3, <1>4, <1>5, SinkFacts, SinkGoal DEF SinkInv, SinkTypeOK, RSTypeOK
<1> QED
  BY <1>1, <1>6

\* Steps of others leave the sinks' part alone.
LEMMA SinkUnchanged == ASSUME SinkInv, UNCHANGED rsvars PROVE SinkInv'
<1>1. UNCHANGED <<sink, batch, in_call, char_out, serial, handed>>
  BY DEF rsvars
<1>2. InBatch' = InBatch
  BY <1>1 DEF InBatch, Sound
<1> QED
  BY <1>1, <1>2, SinkFacts, SinkGoal DEF SinkInv, SinkTypeOK, RSTypeOK, SinkState

-----------------------------------------------------------------------------
(* The host reads a byte.                                                  *)

\* The table of clients: its tags are different and none is an escape.
LEMMA ChipFacts ==
    /\ Len(ChipTags) \in Nat /\ Chips = 0..(Len(ChipTags) - 1) /\ RawPty = Len(ChipTags)
    /\ 0 \in Chips /\ RawPty \notin Chips /\ -1 \notin Chips /\ DefaultTag \in Chips
    /\ AllPtys = Chips \cup {RawPty}
    /\ \A i \in Chips : ChipTags[i + 1] \in Byte \ {OUTER_ESC, OUTER_RESET}
    /\ \A i, j \in Chips : ChipTags[i + 1] = ChipTags[j + 1] => i = j
<1>1. /\ ChipTags \in Seq(Byte \ {OUTER_ESC, OUTER_RESET}) /\ ChipTags # <<>>
      /\ IsInjective(ChipTags)
  BY TcuAssumption
<1> DEFINE n == Len(ChipTags)
<1>2. n \in Nat /\ n # 0 /\ DOMAIN ChipTags = 1..n
      /\ \A k \in 1..n : ChipTags[k] \in Byte \ {OUTER_ESC, OUTER_RESET}
  BY <1>1, EmptySeq
<1>3. \A k, l \in 1..n : ChipTags[k] = ChipTags[l] => k = l
  BY <1>1, <1>2 DEF IsInjective
<1> HIDE DEF n
<1>4. \A i \in 0..(n - 1) : i \in Int /\ i + 1 \in 1..n
  BY <1>2
<1>5. \A i, j \in 0..(n - 1) : i + 1 = j + 1 => i = j
  BY <1>2
<1>6. \A i, j \in 0..(n - 1) : ChipTags[i + 1] = ChipTags[j + 1] => i = j
  BY <1>3, <1>4, <1>5, Zenon
<1>7. /\ 0 \in 0..(n - 1) /\ n \notin 0..(n - 1) /\ -1 \notin 0..(n - 1)
      /\ n - 1 \in 0..(n - 1) /\ 0..n = 0..(n - 1) \cup {n}
  BY <1>2
<1> QED
  BY <1>2, <1>4, <1>6, <1>7 DEF n, Chips, RawPty, AllPtys, DefaultTag

PtysOK == pty \in [AllPtys -> PtyType]

\* What the parser does to the PTYs, and where it is then.
LEMMA FeedIs ==
    ASSUME THTypeOK, NEW ch \in Byte, TcuFeed(ch)
    PROVE  /\ UNCHANGED <<patch, log_timestamp, pty_in, tty_out, cut>>
           /\ PtysOK /\ PtysOK' /\ tcu_in_escape' \in BOOLEAN /\ cur_rx_guest' \in Chips
           /\ pty'[RawPty] = PatchFlush(pty[RawPty], ch)
           /\ \A i \in Chips : pty'[i] = pty[i] \/ pty'[i] = PatchFlush(pty[i], ch)
           /\ ~tcu_in_escape /\ ch = OUTER_ESC =>
                 /\ tcu_in_escape' /\ cur_rx_guest' = cur_rx_guest
                 /\ \A i \in Chips : pty'[i] = pty[i]
           /\ tcu_in_escape /\ ch # OUTER_ESC =>
                 ~tcu_in_escape' /\ \A i \in Chips : pty'[i] = pty[i]
           /\ \A i \in Chips : tcu_in_escape /\ ch = ChipTags[i + 1] => cur_rx_guest' = i
           /\ (tcu_in_escape <=> ch = OUTER_ESC) =>
                 /\ ~tcu_in_escape' /\ cur_rx_guest' = cur_rx_guest
                 /\ \A i \in Chips :
                       pty'[i] = IF i = cur_rx_guest THEN PatchFlush(pty[i], ch) ELSE pty[i]
<1>1. UNCHANGED <<patch, log_timestamp, pty_in, tty_out, cut>>
  BY DEF TcuFeed, options
<1>2. /\ PtysOK /\ cur_rx_guest \in Chips /\ tcu_in_escape \in BOOLEAN
  BY DEF THTypeOK, PtysOK, PtyType, LogByte
<1> DEFINE M == [pty EXCEPT ![RawPty] = PatchFlush(@, ch)]
           D == [M EXCEPT ![cur_rx_guest] = PatchFlush(@, ch)]
<1>3. \A i \in AllPtys : PatchFlush(pty[i], ch) \in PtyType
  BY <1>2, PatchFlushIs DEF PtysOK
<1>4. /\ M \in [AllPtys -> PtyType] /\ M[RawPty] = PatchFlush(pty[RawPty], ch)
      /\ \A i \in Chips : M[i] = pty[i]
  BY <1>2, <1>3, ChipFacts DEF PtysOK
<1>5. D = [M EXCEPT ![cur_rx_guest] = PatchFlush(M[cur_rx_guest], ch)]
  OBVIOUS
<1>6. MirrorTo(ch) = M /\ (Deliver(ch) => pty' = D)
  BY DEF MirrorTo, Deliver
<1> HIDE DEF M
<1>7. /\ D \in [AllPtys -> PtyType] /\ D[RawPty] = PatchFlush(pty[RawPty], ch)
      /\ \A i \in Chips : D[i] = IF i = cur_rx_guest THEN PatchFlush(pty[i], ch) ELSE pty[i]
  <2>1. M[cur_rx_guest] = pty[cur_rx_guest] /\ cur_rx_guest # RawPty /\ cur_rx_guest \in AllPtys
    BY <1>2, <1>4, ChipFacts
  <2>2. PatchFlush(M[cur_rx_guest], ch) \in PtyType
    BY <1>3, <2>1
  <2> QED
    BY <1>4, <1>5, <2>1, <2>2, ChipFacts
<1> HIDE DEF D
<1>8. OUTER_ESC # OUTER_RESET
  BY TcuBytes
<1>9. CASE TcuEscapeStart(ch)
  <2>1. ~tcu_in_escape /\ ch = OUTER_ESC /\ tcu_in_escape' = TRUE /\ pty' = M /\ cur_rx_guest' = cur_rx_guest
    BY <1>6, <1>9 DEF TcuEscapeStart
  <2> QED
    BY <1>1, <1>2, <1>4, <2>1 DEF PtysOK
<1>10. CASE TcuPayload(ch)
  <2>1. /\ ~tcu_in_escape /\ ch # OUTER_ESC /\ tcu_in_escape' = tcu_in_escape
        /\ pty' = D /\ cur_rx_guest' = cur_rx_guest
    BY <1>6, <1>10 DEF TcuPayload
  <2> QED
    BY <1>1, <1>2, <1>7, <2>1 DEF PtysOK
<1>11. CASE TcuEscape(ch)
  <2>1. /\ tcu_in_escape /\ ch = OUTER_ESC /\ tcu_in_escape' = FALSE
        /\ pty' = D /\ cur_rx_guest' = cur_rx_guest
    BY <1>6, <1>11 DEF TcuEscape
  <2> QED
    BY <1>1, <1>2, <1>7, <2>1, ChipFacts DEF PtysOK
<1>12. CASE TcuReset(ch)
  <2>1. /\ tcu_in_escape /\ ch = OUTER_RESET /\ tcu_in_escape' = FALSE
        /\ pty' = M /\ cur_rx_guest' = DefaultTag
    BY <1>6, <1>12 DEF TcuReset
  <2> QED
    BY <1>1, <1>2, <1>4, <1>8, <2>1, ChipFacts DEF PtysOK
<1>13. CASE TcuTag(ch)
  <2>1. /\ tcu_in_escape /\ ch # OUTER_ESC /\ tcu_in_escape' = FALSE /\ pty' = M
        /\ cur_rx_guest' = IF \E i \in Chips : ChipTags[i + 1] = ch
                           THEN CHOOSE i \in Chips : ChipTags[i + 1] = ch
                           ELSE cur_rx_guest
    BY <1>6, <1>13 DEF TcuTag
  <2>2. /\ cur_rx_guest' \in Chips
        /\ \A i \in Chips : ch = ChipTags[i + 1] => cur_rx_guest' = i
    <3>1. CASE \E i \in Chips : ChipTags[i + 1] = ch
      <4>1. cur_rx_guest' \in Chips /\ ChipTags[cur_rx_guest' + 1] = ch
        BY <2>1, <3>1, Zenon
      <4> QED
        BY <4>1, ChipFacts, Zenon
    <3>2. CASE ~\E i \in Chips : ChipTags[i + 1] = ch
      BY <1>2, <2>1, <3>2
    <3> QED
      BY <3>1, <3>2
  <2> QED
    BY <1>1, <1>2, <1>4, <2>1, <2>2 DEF PtysOK
<1> QED
  BY <1>9, <1>10, <1>11, <1>12, <1>13 DEF TcuFeed

\* All PTYs keep what is said of them.
LEMMA FeedKeepsPtys ==
    ASSUME THTypeOK, PtyState, link \in Seq(Byte), NEW ch \in Byte, TcuFeed(ch),
           link' = Append(link, ch)
    PROVE  THTypeOK' /\ PtyState'
<1>1. /\ UNCHANGED <<patch, log_timestamp, pty_in, tty_out, cut>>
      /\ PtysOK /\ PtysOK' /\ tcu_in_escape' \in BOOLEAN /\ cur_rx_guest' \in Chips
      /\ pty'[RawPty] = PatchFlush(pty[RawPty], ch)
      /\ \A i \in Chips : pty'[i] = pty[i] \/ pty'[i] = PatchFlush(pty[i], ch)
  BY FeedIs
<1>2. THTypeOK'
  BY <1>1 DEF THTypeOK, PtysOK, PtyType, LogByte
<1>3. \A i \in AllPtys : pty[i] \in PtyType
  BY <1>1 DEF PtysOK
<1>4. \A i \in AllPtys : pty'[i] = pty[i] \/ pty'[i] = PatchFlush(pty[i], ch)
  BY <1>1, ChipFacts
<1>5. ASSUME patch, NEW i \in AllPtys PROVE PatchState(pty'[i])
  <2>1. PatchState(pty[i])
    BY <1>5 DEF PtyState
  <2>2. PatchState(PatchFlush(pty[i], ch))
    BY <1>3, <1>5, <2>1, PatchStateStep
  <2> QED
    BY <1>4, <2>1, <2>2
<1>6. ASSUME NEW i \in AllPtys PROVE StampState(pty[i])'
  <2>1. StampState(pty[i])
    BY DEF PtyState
  <2>2. StampState(PatchFlush(pty[i], ch))
    BY <1>3, <2>1, StampStateStep
  <2>3. StampState(pty'[i])
    BY <1>4, <2>1, <2>2
  <2> QED
    BY <1>1, <2>3 DEF StampState
<1>7. Follows(patch, link', pty'[RawPty])
  <2>1. Follows(patch, link, pty[RawPty]) /\ pty[RawPty] \in PtyType
    BY <1>3, ChipFacts DEF PtyState
  <2> QED
    BY <1>1, <2>1, FollowsStep
<1>8. PtyState'
  BY <1>1, <1>5, <1>6, <1>7 DEF PtyState
<1> QED
  BY <1>2, <1>8

-----------------------------------------------------------------------------
(* Clients and their PTYs.                                                 *)

\* Append and Front undo each other.
LEMMA FrontOfAppend ==
    ASSUME NEW S, NEW s \in Seq(S), NEW x \in S
    PROVE  Front(Append(s, x)) = s /\ Last(Append(s, x)) = x /\ Append(s, x) # <<>>
<1> DEFINE u == Append(s, x)
           n == Len(s)
<1>1. u \in Seq(S) /\ Len(u) = n + 1 /\ n \in Nat /\ u[n + 1] = x /\ \A k \in 1..n : u[k] = s[k]
  BY AppendProperties
<1>2. SubSeq(s, 1, n) = s
  BY SubSeqFull
<1> HIDE DEF u, n
<1>3. SubSeq(u, 1, n) = SubSeq(s, 1, n)
  BY <1>1 DEF n
<1>4. Len(u) - 1 = n /\ u # <<>>
  BY <1>1
<1> QED
  BY <1>1, <1>2, <1>3, <1>4 DEF Front, Last, u

\* A sequence is its front and its last element.
LEMMA LastOfFront ==
    ASSUME NEW S, NEW s \in Seq(S), s # <<>>
    PROVE  Front(s) \in Seq(S) /\ Last(s) \in S /\ Append(Front(s), Last(s)) = s
<1> DEFINE n == Len(s)
           f == Front(s)
           x == Last(s)
<1>1. n \in Nat /\ n >= 1 /\ x \in S
  BY EmptySeq DEF Last
<1>2. f \in Seq(S) /\ Len(f) = n - 1 /\ \A k \in 1..(n - 1) : f[k] = s[k]
  <2> DEFINE m == n - 1
  <2>1. m \in Nat /\ m <= n
    BY <1>1
  <2>2. f = SubSeq(s, 1, m)
    BY DEF Front
  <2> HIDE DEF m, f
  <2>3. f \in Seq(S) /\ Len(f) = m /\ \A k \in 1..m : f[k] = s[k]
    BY <2>1, <2>2 DEF n
  <2> QED
    BY <2>3 DEF m
<1>3. x = s[n]
  BY DEF Last
<1> HIDE DEF f, x
<1>4. /\ Append(f, x) \in Seq(S) /\ Len(Append(f, x)) = (n - 1) + 1
      /\ Append(f, x)[(n - 1) + 1] = x /\ \A k \in 1..(n - 1) : Append(f, x)[k] = f[k]
  BY <1>1, <1>2
<1>5. (n - 1) + 1 = n /\ \A k \in 1..n : k = n \/ k \in 1..(n - 1)
  BY <1>1
<1>6. \A k \in 1..n : Append(f, x)[k] = s[k]
  BY <1>2, <1>3, <1>4, <1>5
<1>7. Append(f, x) = s
  BY <1>1, <1>4, <1>5, <1>6, SeqEqual
<1> QED
  BY <1>1, <1>2, <1>7 DEF f, x

\* What clients printed are bytes.
LEMMA PrintedType ==
    ASSUME SinkTypeOK, WireTypeOK
    PROVE  AllPrinted \in [Chips -> Seq(Byte)]
<1>1. \A i \in Chips \ {0} : sent[i] \in Seq(Byte)
  BY DEF WireTypeOK
<1>2. taken \in Nat /\ \A k \in 1..taken : serial[k].byte \in Byte
  <2>1. /\ serial \in Seq([from: SinkIfs, byte: PrintBytes \cup {Return}])
        /\ taken \in 0..Len(serial)
    BY DEF SinkTypeOK, RSTypeOK, WireTypeOK
  <2> DEFINE U == PrintBytes \cup {Return}
  <2>2. \A x \in U : x \in Byte
    BY TcuLinkAssumption, TcuBytes
  <2> HIDE DEF U
  <2>3. serial \in Seq([from: SinkIfs, byte: U])
    BY <2>1 DEF U
  <2>4. \A k \in 1..Len(serial) : serial[k].byte \in U
    <3> DEFINE R == [from: SinkIfs, byte: U]
    <3>1. \A x \in R : x.byte \in U
      OBVIOUS
    <3> HIDE DEF R
    <3>2. \A k \in 1..Len(serial) : serial[k] \in R
      BY <2>3, ElementOfSeq DEF R
    <3> QED
      BY <3>1, <3>2
  <2>5. taken \in Nat /\ \A k \in 1..taken : k \in 1..Len(serial)
    BY <2>1
  <2> QED
    BY <2>2, <2>4, <2>5, Zenon
<1>3. [k \in 1..taken |-> serial[k].byte] \in Seq(Byte)
  BY <1>2
<1>4. \A i \in Chips : Printed(i) \in Seq(Byte)
  BY <1>1, <1>3 DEF Printed
<1> QED
  BY <1>4 DEF AllPrinted

\* Steps that neither print nor read
LEMMA ClientsUnchanged ==
    ASSUME ClientState, AllPrinted' = AllPrinted,
           UNCHANGED <<patch, pty, wire, tcu_in_escape, cur_rx_guest, tcu_tag, foreign>>
    PROVE  ClientState'
<1>1. \A i \in Chips : Given(i)' = Given(i)
  BY DEF Given
<1>2. Restarting' = Restarting
  BY DEF Restarting
<1> QED
  BY <1>1, <1>2 DEF ClientState

\* The TCU sends a byte.
LEMMA ClientSends ==
    ASSUME SinkTypeOK, WireTypeOK, ClientState, NEW i \in Chips, NEW b \in Byte, TcuSends(i, b),
           AllPrinted' = [AllPrinted EXCEPT ![i] = Append(@, b)],
           UNCHANGED <<patch, pty, tcu_in_escape, cur_rx_guest, foreign>>
    PROVE  ClientState' /\ wire' \in Seq(Byte) /\ tcu_tag' = i
<1> DEFINE P == AllPrinted
           tag == ChipTags[i + 1]
<1>1. /\ wire = <<>> /\ tcu_tag' = i
      /\ wire' = (IF tcu_tag = i THEN <<>> ELSE <<OUTER_ESC, tag>>) \o Coded(b)
  BY DEF TcuSends, Coded
<1>2. /\ P \in [Chips -> Seq(Byte)] /\ P'[i] = Append(P[i], b)
      /\ \A j \in Chips \ {i} : P'[j] = P[j]
  BY PrintedType
<1>3. Front(P'[i]) = P[i] /\ Last(P'[i]) = b /\ P'[i] # <<>>
  BY <1>2, FrontOfAppend
<1>4. tag \in Byte /\ OUTER_ESC \in Byte /\ i # -1
  BY ChipFacts, TcuBytes
<1>5. Coded(b) \in Seq(Byte) /\ Coded(b) # <<>>
  BY <1>4 DEF Coded
<1> HIDE DEF P, tag
<1>6. tcu_tag = i => wire' = Coded(b)
  BY <1>1, <1>5
<1>7. tcu_tag # i => wire' = <<OUTER_ESC, tag>> \o Coded(b)
  BY <1>1
<1>8. wire' \in Seq(Byte) /\ wire' # <<>>
  <2>1. CASE tcu_tag = i
    BY <1>5, <1>6, <2>1
  <2>2. CASE tcu_tag # i
    <3> DEFINE c == Coded(b)
    <3>1. c \in Seq(Byte) /\ <<OUTER_ESC, tag>> \in Seq(Byte)
      BY <1>4, <1>5
    <3> HIDE DEF c
    <3>2. <<OUTER_ESC, tag>> \o c \in Seq(Byte) /\ Len(<<OUTER_ESC, tag>> \o c) = 2 + Len(c)
      BY <3>1
    <3>3. <<OUTER_ESC, tag>> \o c # <<>>
      BY <3>1, <3>2, EmptySeq
    <3> QED
      BY <1>7, <2>2, <3>2, <3>3, Zenon DEF c
  <2> QED
    BY <2>1, <2>2
<1>9. \A j \in Chips : Given(j) = P[j] /\ Given(j)' = P[j]
  BY <1>1, <1>2, <1>3, <1>8 DEF Given, P
<1>10. CASE foreign
  BY <1>1, <1>8, <1>10 DEF ClientState
<1>11. CASE ~foreign
  <2>1. /\ \A j \in Chips : Follows(patch, Given(j), pty[j])
        /\ ~tcu_in_escape /\ tcu_tag \in {-1, cur_rx_guest}
    BY <1>1, <1>11 DEF ClientState
  <2>2. \A j \in Chips : Follows(patch', Given(j)', pty'[j])
    BY <1>9, <2>1
  <2>3. Sending(b, i, wire', tcu_in_escape', cur_rx_guest')
    <3>1. CASE tcu_tag = i
      BY <1>4, <1>6, <2>1, <3>1 DEF Sending
    <3>2. CASE tcu_tag # i
      BY <1>7, <2>1, <3>2 DEF Sending, tag
    <3> QED
      BY <3>1, <3>2
  <2> QED
    BY <1>1, <1>3, <1>4, <1>8, <2>2, <2>3 DEF ClientState, P
<1> QED
  BY <1>10, <1>11

\* Taking the first of one or two elements before a sequence
LEMMA OneAndTwo ==
    ASSUME NEW S, NEW x \in S, NEW y \in S, NEW c \in Seq(S)
    PROVE  /\ Head(<<x, y>> \o c) = x /\ Tail(<<x, y>> \o c) = <<y>> \o c
           /\ Head(<<y>> \o c) = y /\ Tail(<<y>> \o c) = c
           /\ <<y>> \o c # <<>>
<1>1. <<x, y>> \o c \in Seq(S) /\ <<y>> \o c \in Seq(S)
  OBVIOUS
<1>2. <<x, y>> \o c = <<x>> \o (<<y>> \o c)
  <2> DEFINE p == <<x>>
             q == <<y>>
  <2>1. p \in Seq(S) /\ q \in Seq(S) /\ <<x, y>> = p \o q
    <3>1. <<x, y>> = <<x>> \o <<y>>
      <4>1. <<x, y>> = Append(<<x>>, y) /\ <<x>> \in Seq(S)
        OBVIOUS
      <4> QED
        BY <4>1, AppendIsConcat, Zenon
    <3>2. <<x>> \in Seq(S) /\ <<y>> \in Seq(S)
      OBVIOUS
    <3> QED
      BY <3>1, <3>2
  <2> HIDE DEF p, q
  <2>2. (p \o q) \o c = p \o (q \o c)
    BY <2>1
  <2> QED
    BY <2>1, <2>2, Zenon DEF p, q
<1>3. ASSUME NEW z \in S, NEW w \in Seq(S)
      PROVE  Head(<<z>> \o w) = z /\ Tail(<<z>> \o w) = w /\ <<z>> \o w # <<>>
  BY <1>3
<1> QED
  BY <1>1, <1>2, <1>3, Zenon

\* The byte that is on the wire comes to its client's PTY and to no other.
LEMMA ClientIsRead ==
    ASSUME SinkTypeOK, WireTypeOK, THTypeOK, ~foreign, ClientState, wire # <<>>, tcu_tag # -1,
           TcuFeed(Head(wire)), wire' = Tail(wire), AllPrinted' = AllPrinted,
           UNCHANGED <<tcu_tag, foreign>>
    PROVE  ClientState'
<1> DEFINE P == AllPrinted
           i == tcu_tag
           s == P[i]
           b == Last(s)
           f == Front(s)
           tag == ChipTags[i + 1]
           c == Coded(b)
           ch == Head(wire)
<1>1. /\ \A j \in Chips : Follows(patch, Given(j), pty[j])
      /\ s # <<>> /\ Sending(b, i, wire, tcu_in_escape, cur_rx_guest)
  BY DEF ClientState
<1>2. i \in Chips /\ P \in [Chips -> Seq(Byte)] /\ wire \in Seq(Byte)
  BY PrintedType DEF WireTypeOK
<1>3. s \in Seq(Byte) /\ f \in Seq(Byte) /\ b \in Byte /\ Append(f, b) = s
  <2>1. s \in Seq(Byte)
    BY <1>2
  <2> HIDE DEF s
  <2> QED
    BY <1>1, <2>1, LastOfFront
<1>4. tag \in Byte /\ tag # OUTER_ESC /\ OUTER_ESC \in Byte
  BY <1>2, ChipFacts, TcuBytes
<1> HIDE DEF b, f, s, tag
<1>5. c \in Seq(Byte) /\ c # <<>>
  BY <1>3 DEF Coded
<1> HIDE DEF c
<1>6. \A j \in Chips : Given(j) = IF j = i THEN f ELSE P[j]
  BY DEF Given, f, s
<1>7. \A j \in Chips : Given(j)' = IF wire' # <<>> /\ j = i THEN f ELSE P[j]
  BY DEF Given, f, s
<1>8. wire' # <<>> /\ (\A j \in Chips : pty'[j] = pty[j]) /\ UNCHANGED patch =>
         \A j \in Chips : Follows(patch', Given(j)', pty'[j])
  BY <1>1, <1>6, <1>7
<1>9. ASSUME wire' # <<>>, \A j \in Chips : Follows(patch', Given(j)', pty'[j]),
             Sending(b, i, wire', tcu_in_escape', cur_rx_guest')
      PROVE  ClientState'
  BY <1>1, <1>9 DEF ClientState, s, b
<1>10. ch \in Byte
  BY <1>2, HeadAndTail
<1> DEFINE quiet == \A j \in Chips : pty'[j] = pty[j]
<1>11. /\ UNCHANGED patch
       /\ ~tcu_in_escape /\ ch = OUTER_ESC =>
             tcu_in_escape' /\ cur_rx_guest' = cur_rx_guest /\ quiet
       /\ tcu_in_escape /\ ch # OUTER_ESC => ~tcu_in_escape' /\ quiet
       /\ tcu_in_escape /\ ch = tag => cur_rx_guest' = i
       /\ (tcu_in_escape <=> ch = OUTER_ESC) =>
             /\ ~tcu_in_escape' /\ cur_rx_guest' = cur_rx_guest
             /\ \A j \in Chips :
                   pty'[j] = IF j = cur_rx_guest THEN PatchFlush(pty[j], ch) ELSE pty[j]
       /\ \A j \in Chips : pty[j] \in PtyType
  BY <1>2, <1>10, FeedIs, ChipFacts DEF tag, PtysOK
<1>12. ASSUME wire = <<b>>, tcu_in_escape <=> b = OUTER_ESC, cur_rx_guest = i
       PROVE  ClientState'
  <2>1. ch = b /\ wire' = <<>>
    BY <1>3, <1>12
  <2>2. \A j \in Chips : Given(j)' = P[j]
    BY <1>7, <2>1
  <2>3. ~tcu_in_escape' /\ cur_rx_guest' = i
        /\ \A j \in Chips : pty'[j] = IF j = i THEN PatchFlush(pty[j], b) ELSE pty[j]
    BY <1>11, <1>12, <2>1
  <2>4. Follows(patch, s, PatchFlush(pty[i], b))
    <3>1. Follows(patch, f, pty[i]) /\ pty[i] \in PtyType
      BY <1>1, <1>2, <1>6, <1>11
    <3> QED
      BY <1>3, <3>1, FollowsStep
  <2>5. \A j \in Chips : Follows(patch', Given(j)', pty'[j])
    BY <1>1, <1>6, <1>11, <2>2, <2>3, <2>4 DEF s
  <2> QED
    BY <2>1, <2>3, <2>5 DEF ClientState
<1> DEFINE longer == <<OUTER_ESC, tag>> \o c
           shorter == <<tag>> \o c
<1>13. /\ Head(longer) = OUTER_ESC /\ Tail(longer) = shorter
       /\ Head(shorter) = tag /\ Tail(shorter) = c /\ shorter # <<>>
  BY <1>4, <1>5, OneAndTwo
<1>14. CASE wire = <<OUTER_ESC, tag>> \o c /\ ~tcu_in_escape
  <2>1. ch = OUTER_ESC /\ wire' = <<tag>> \o c /\ <<tag>> \o c # <<>>
    <3>1. wire = longer
      BY <1>14
    <3>2. Head(wire) = Head(longer) /\ Tail(wire) = Tail(longer)
      BY <3>1, Zenon
    <3> QED
      BY <1>13, <3>2, Zenon
  <2>2. Sending(b, i, wire', tcu_in_escape', cur_rx_guest')
    BY <1>11, <1>14, <2>1 DEF Sending, tag, c
  <2> QED
    BY <1>8, <1>9, <1>11, <1>14, <2>1, <2>2
<1>15. CASE wire = <<tag>> \o c /\ tcu_in_escape
  <2>1. ch = tag /\ wire' = c
    <3>1. wire = shorter
      BY <1>15
    <3>2. Head(wire) = Head(shorter) /\ Tail(wire) = Tail(shorter)
      BY <3>1, Zenon
    <3> QED
      BY <1>13, <3>2, Zenon
  <2>2. Sending(b, i, wire', tcu_in_escape', cur_rx_guest')
    BY <1>4, <1>11, <1>15, <2>1 DEF Sending, c
  <2> QED
    BY <1>4, <1>5, <1>8, <1>9, <1>11, <1>15, <2>1, <2>2
<1>16. CASE wire = c /\ ~tcu_in_escape /\ cur_rx_guest = i
  <2>1. CASE b = OUTER_ESC
    <3>1. wire = <<b, b>>
      BY <1>16, <2>1 DEF c, Coded
    <3>2. ch = OUTER_ESC /\ wire' = <<b>> /\ wire' # <<>>
      BY <2>1, <3>1
    <3>3. Sending(b, i, wire', tcu_in_escape', cur_rx_guest')
      BY <1>11, <1>16, <2>1, <3>2 DEF Sending
    <3> QED
      BY <1>8, <1>9, <1>11, <1>16, <3>2, <3>3
  <2>2. CASE b # OUTER_ESC
    BY <1>12, <1>16, <2>2 DEF c, Coded
  <2> QED
    BY <2>1, <2>2
<1>17. CASE wire = <<b>> /\ b = OUTER_ESC /\ tcu_in_escape /\ cur_rx_guest = i
  BY <1>12, <1>17
<1> QED
  BY <1>1, <1>14, <1>15, <1>16, <1>17 DEF Sending, tag, c

\* A restart of the chip is read.
LEMMA RestartIsRead ==
    ASSUME SinkTypeOK, WireTypeOK, THTypeOK, ~foreign, ClientState, wire # <<>>, tcu_tag = -1,
           TcuFeed(Head(wire)), wire' = Tail(wire), AllPrinted' = AllPrinted,
           UNCHANGED <<tcu_tag, foreign>>
    PROVE  ClientState'
<1> DEFINE ch == Head(wire)
<1>1. Restarting /\ \A j \in Chips : Follows(patch, Given(j), pty[j])
  BY DEF ClientState
<1>2. wire \in Seq(Byte) /\ ch \in Byte
  BY HeadAndTail DEF WireTypeOK
<1>3. /\ UNCHANGED patch
      /\ ~tcu_in_escape /\ ch = OUTER_ESC => tcu_in_escape' /\ \A j \in Chips : pty'[j] = pty[j]
      /\ tcu_in_escape /\ ch # OUTER_ESC => ~tcu_in_escape' /\ \A j \in Chips : pty'[j] = pty[j]
  BY <1>2, FeedIs
<1>4. \A j \in Chips : Given(j) = AllPrinted[j] /\ Given(j)' = AllPrinted[j]
  BY ChipFacts DEF Given
<1>5. CASE wire = <<OUTER_ESC, OUTER_RESET>> /\ ~tcu_in_escape
  <2>1. ch = OUTER_ESC /\ wire' = <<OUTER_RESET>> /\ wire' # <<>>
    BY <1>5
  <2> QED
    BY <1>1, <1>3, <1>4, <1>5, <2>1 DEF ClientState, Restarting
<1>6. CASE wire = <<OUTER_RESET>> /\ tcu_in_escape
  <2>1. ch = OUTER_RESET /\ wire' = <<>> /\ ch # OUTER_ESC
    BY <1>6, TcuBytes
  <2> QED
    BY <1>1, <1>3, <1>4, <1>6, <2>1 DEF ClientState
<1> QED
  BY <1>1, <1>5, <1>6 DEF Restarting

-----------------------------------------------------------------------------
(* The downlink.                                                           *)

\* What the host writes are bytes.
LEMMA EncodeType ==
    ASSUME NEW i \in AllPtys, NEW d \in Seq(Byte)
    PROVE  Encode(i, d) \in Seq(Byte)
<1> DEFINE p == [k \in DOMAIN d |->
                    IF d[k] = OUTER_ESC THEN <<OUTER_ESC, OUTER_ESC>> ELSE <<d[k]>>]
<1>1. \A x \in Byte : <<x>> \in Seq(Byte) /\ <<x, x>> \in Seq(Byte)
  OBVIOUS
<1>2. p \in Seq(Seq(Byte))
  <2>1. DOMAIN d = 1..Len(d) /\ Len(d) \in Nat /\ \A k \in 1..Len(d) : d[k] \in Byte
    OBVIOUS
  <2> QED
    BY <1>1, <2>1, TcuBytes
<1>3. FlattenSeq(p) \in Seq(Byte)
  BY <1>2, FlattenType
<1> DEFINE e == FlattenSeq(p)
<1>4. Encode(i, d) = IF i = RawPty THEN d ELSE <<OUTER_ESC, ChipTags[i + 1]>> \o e
  BY DEF Encode
<1> HIDE DEF e, p
<1>5. ASSUME i # RawPty PROVE <<OUTER_ESC, ChipTags[i + 1]>> \o e \in Seq(Byte)
  <2>1. <<OUTER_ESC, ChipTags[i + 1]>> \in Seq(Byte)
    BY <1>5, ChipFacts, TcuBytes
  <2> QED
    BY <1>3, <2>1, ConcatProperties DEF e
<1> QED
  BY <1>4, <1>5

-----------------------------------------------------------------------------
(* The invariant.                                                          *)

\* TLInv, initially
LEMMA LinkInit == TLInit => TLInv
<1> SUFFICES ASSUME TLInit PROVE TLInv
  OBVIOUS
<1>1. RSInit /\ THInit
  BY DEF TLInit
<1>2. /\ wire = <<>> /\ tcu_tag = -1 /\ taken = 0 /\ sent = [i \in Chips \ {0} |-> <<>>]
      /\ foreign = FALSE /\ link = <<>>
  BY DEF TLInit
<1>3. SinkTypeOK
  <2>1. /\ <<>> \in Seq(PrintBytes \cup {Return})
        /\ <<>> \in Seq([from: SinkIfs, byte: PrintBytes \cup {Return}])
    BY EmptySeq
  <2>2. batch \in [head: Nat, tail: Nat, buf: [1..BufSize -> PrintBytes \cup {0}]]
    BY <1>1 DEF RSInit
  <2>3. /\ char_out \in [CharIfs -> Seq(PrintBytes \cup {Return})]
        /\ handed \in [SinkIfs -> Seq(PrintBytes \cup {Return})]
    BY <1>1, <2>1 DEF RSInit
  <2>4. /\ serial \in Seq([from: SinkIfs, byte: PrintBytes \cup {Return}]) /\ in_call = FALSE
        /\ sink \in {"passthru", "debug", "null"}
    BY <1>1, <2>1 DEF RSInit
  <2> QED
    BY <2>2, <2>3, <2>4 DEF SinkTypeOK, RSTypeOK
<1>4. /\ pty = [i \in AllPtys |-> NewPty] /\ tcu_in_escape = FALSE /\ cur_rx_guest = 0
      /\ patch \in BOOLEAN /\ log_timestamp \in BOOLEAN
  BY <1>1 DEF THInit
<1>5. PtysOK /\ \A i \in AllPtys : pty[i] = NewPty
  BY <1>4, NewPtyState DEF PtysOK
<1>6. THTypeOK
  <2>1. tty_out \in Seq(Byte) /\ pty_in \in [AllPtys -> Seq(Byte)] /\ cut \in BOOLEAN
    <3>1. <<>> \in Seq(Byte) /\ <<NUL, OUTER_ESC, OUTER_RESET>> \in Seq(Byte)
      <4>1. NUL \in Byte /\ OUTER_ESC \in Byte /\ OUTER_RESET \in Byte
        BY TcuBytes
      <4> QED
        BY <4>1
    <3> QED
      BY <1>1, <3>1 DEF THInit
  <2> QED
    BY <1>4, <1>5, <2>1, ChipFacts DEF THTypeOK, PtysOK, PtyType, LogByte
<1>7. serial = <<>> /\ Len(serial) = 0
  BY <1>1 DEF RSInit
<1>8. WireTypeOK
  <2>1. <<>> \in Seq(Byte) /\ 0 \in 0..0
    BY EmptySeq
  <2> QED
    BY <1>2, <1>7, <2>1 DEF WireTypeOK
<1>9. SinkState
  <2>1. \A i : PutParts(<<>>, i) = <<>>
    BY DEF PutParts
  <2>2. \A i : PutBy(i) = <<>>
    BY <1>7, <2>1, FlattenEmpty DEF PutBy, PutParts
  <2>3. /\ \A i \in CharIfs : handed[i] = <<>> /\ char_out[i] = <<>>
        /\ handed["batch"] = <<>> /\ batch.head = batch.tail /\ ~in_call
    BY <1>1 DEF RSInit, SinkIfs
  <2>4. <<>> \o <<>> = <<>>
    OBVIOUS
  <2> QED
    BY <2>2, <2>3, <2>4 DEF SinkState, InBatch
<1>10. PtyState
  BY <1>2, <1>5, NewPtyState, ChipFacts DEF PtyState
<1>11. \A i \in Chips : Given(i) = <<>>
  <2>1. [k \in 1..0 |-> serial[k].byte] = <<>>
    OBVIOUS
  <2>2. \A i \in Chips : Printed(i) = <<>>
    BY <1>2, <2>1 DEF Printed
  <2> QED
    BY <1>2, <2>2 DEF Given, AllPrinted
<1>12. ClientState
  BY <1>2, <1>4, <1>5, <1>11, NewPtyState, ChipFacts DEF ClientState
<1> QED
  BY <1>3, <1>6, <1>8, <1>9, <1>10, <1>12 DEF TLInv

\* Steps of others leave the host's part alone.
LEMMA HostUnchanged ==
    ASSUME THTypeOK, PtyState, UNCHANGED <<thvars, link>>
    PROVE  THTypeOK' /\ PtyState'
BY DEF THTypeOK, PtyState, thvars, options, uplink, StampState

\* What was printed does not change when only the sinks move.
LEMMA PrintedSame ==
    ASSUME UNCHANGED <<taken, sent>>,
           \A k \in 1..taken : serial'[k] = serial[k]
    PROVE  AllPrinted' = AllPrinted
<1>1. [k \in 1..taken' |-> serial'[k].byte] = [k \in 1..taken |-> serial[k].byte]
  OBVIOUS
<1>2. \A i \in Chips : Printed(i)' = Printed(i)
  BY <1>1 DEF Printed
<1> QED
  BY <1>2 DEF AllPrinted

\* The sinks print, the host is idle.
LEMMA SinksMove ==
    ASSUME TLInv, ClientPrints \/ SinkPrints
    PROVE  TLInv'
<1>1. SinkInv /\ THTypeOK /\ WireTypeOK /\ PtyState /\ ClientState
  BY DEF TLInv, SinkInv
<1>2. UNCHANGED <<thvars, tcu, link>>
  BY DEF ClientPrints, SinkPrints
<1>3. SinkInv' /\ (serial' = serial \/ \E x \in Device : serial' = Append(serial, x))
  <2>1. CASE ClientPrints
    <3>1. CASE \E i \in CharIfs, c \in PrintBytes : PutChar(i, c)
      BY <1>1, <3>1, PutCharKeeps DEF PutChar
    <3>2. CASE \E b \in Batches : CallBatch(b)
      BY <1>1, <3>2, CallBatchKeeps DEF CallBatch
    <3> QED
      BY <2>1, <3>1, <3>2 DEF ClientPrints
  <2>2. CASE SinkPrints
    BY <1>1, <2>2, CharToSerialKeeps, BatchToSerialKeeps, BatchEndsKeeps DEF SinkPrints, SinkStep
  <2> QED
    BY <2>1, <2>2
<1>4. /\ serial \in Seq(Device) /\ taken \in 0..Len(serial)
      /\ UNCHANGED <<wire, tcu_tag, taken, sent, foreign>>
  BY <1>1, <1>2, SinkFacts DEF WireTypeOK, tcu
<1>5. taken \in 0..Len(serial') /\ \A k \in 1..taken : serial'[k] = serial[k]
  <2>1. CASE serial' = serial
    BY <1>4, <2>1
  <2>2. ASSUME NEW x \in Device, serial' = Append(serial, x)
        PROVE  taken \in 0..Len(serial') /\ \A k \in 1..taken : serial'[k] = serial[k]
    <3>1. Len(serial') = Len(serial) + 1 /\ Len(serial) \in Nat
          /\ \A k \in 1..Len(serial) : serial'[k] = serial[k]
      BY <1>4, <2>2, AppendProperties
    <3>2. taken \in 0..(Len(serial) + 1) /\ \A k \in 1..taken : k \in 1..Len(serial)
      BY <1>4, <3>1
    <3> QED
      BY <3>1, <3>2
  <2> QED
    BY <1>3, <2>1, <2>2
<1>6. WireTypeOK'
  BY <1>1, <1>2, <1>4, <1>5 DEF WireTypeOK
<1>7. THTypeOK' /\ PtyState'
  BY <1>1, <1>2, HostUnchanged
<1>8. ClientState'
  <2>1. AllPrinted' = AllPrinted
    BY <1>4, <1>5, PrintedSame
  <2> QED
    BY <1>1, <1>2, <1>4, <2>1, ClientsUnchanged DEF thvars, options, uplink
<1> QED
  BY <1>3, <1>6, <1>7, <1>8 DEF TLInv, SinkInv

\* A client's byte is put on the link.
LEMMA ByteIsSent ==
    ASSUME TLInv, SerialByte \/ OtherPrints
    PROVE  TLInv'
<1>1. SinkInv /\ SinkTypeOK /\ THTypeOK /\ WireTypeOK /\ PtyState /\ ClientState
  BY DEF TLInv, SinkInv
<1>2. /\ UNCHANGED <<rsvars, thvars, foreign, link>>
      /\ UNCHANGED <<patch, pty, tcu_in_escape, cur_rx_guest, foreign, serial>>
  BY DEF SerialByte, OtherPrints, rsvars, thvars, options, uplink
<1>3. SinkInv' /\ THTypeOK' /\ PtyState'
  BY <1>1, <1>2, SinkUnchanged, HostUnchanged
<1>4. AllPrinted \in [Chips -> Seq(Byte)]
  BY <1>1, PrintedType
<1>5. /\ taken \in 0..Len(serial) /\ Len(serial) \in Nat
      /\ sent \in [Chips \ {0} -> Seq(Byte)] /\ link \in Seq(Byte) /\ foreign \in BOOLEAN
  BY <1>1, SinkFacts DEF WireTypeOK
<1>6. CASE SerialByte
  <2> DEFINE b == serial[taken + 1].byte
             p == [k \in 1..taken |-> serial[k].byte]
             r == [k \in 1..(taken + 1) |-> serial[k].byte]
  <2>1. TcuSends(0, b) /\ taken < Len(serial) /\ taken' = taken + 1 /\ sent' = sent
    BY <1>6 DEF SerialByte
  <2>2. taken + 1 \in 0..Len(serial) /\ taken \in Nat
    BY <1>5, <2>1
  <2>3. p \in Seq(Byte) /\ Len(p) = taken
    <3>1. p = AllPrinted[0]
      BY ChipFacts DEF AllPrinted, Printed
    <3> QED
      BY <1>4, <2>2, <3>1, ChipFacts, SMTT(30)
  <2>4. b \in Byte
    <3>1. serial \in Seq(Device) /\ taken + 1 \in 1..Len(serial)
      BY <1>1, <1>5, <2>1, <2>2, SinkFacts
    <3>2. serial[taken + 1] \in Device
      BY <3>1, ElementOfSeq
    <3>3. SinkByte \subseteq Byte
      BY TcuLinkAssumption, TcuBytes DEF SinkByte
    <3> QED
      BY <3>2, <3>3 DEF Device
  <2>5. r = Append(p, b)
    <3>1. /\ Append(p, b) \in Seq(Byte) /\ Len(Append(p, b)) = taken + 1
          /\ Append(p, b)[taken + 1] = b /\ \A k \in 1..taken : Append(p, b)[k] = serial[k].byte
      <4>1. \A k \in 1..taken : p[k] = serial[k].byte
        OBVIOUS
      <4> HIDE DEF p, b
      <4> QED
        BY <2>2, <2>3, <2>4, <4>1, AppendProperties
    <3>2. \A k \in 1..(taken + 1) : k \in 1..taken \/ k = taken + 1
      BY <2>2
    <3> HIDE DEF p
    <3>3. \A k \in 1..(taken + 1) : Append(p, b)[k] = serial[k].byte
      BY <3>1, <3>2
    <3>4. r \in Seq(Byte) /\ Len(r) = taken + 1 /\ \A k \in 1..(taken + 1) : r[k] = serial[k].byte
      <4>1. \A k \in 1..(taken + 1) : serial[k].byte \in Byte
        <5>1. \A k \in 1..(taken + 1) : Append(p, b)[k] \in Byte
          BY <2>2, <3>1, ElementOfSeq
        <5> QED
          BY <3>3, <5>1
      <4> QED
        BY <2>2, <4>1
    <3> HIDE DEF r, b
    <3> QED
      BY <3>1, <3>3, <3>4, SeqEqual
  <2>6. AllPrinted' = [AllPrinted EXCEPT ![0] = Append(@, b)]
    <3>1. Printed(0)' = r /\ Printed(0) = p /\ \A i \in Chips \ {0} : Printed(i)' = Printed(i)
      BY <1>2, <2>1 DEF Printed
    <3> HIDE DEF r, p, b
    <3> QED
      BY <2>5, <3>1, ChipFacts DEF AllPrinted
  <2> HIDE DEF b
  <2>7. ClientState' /\ wire' \in Seq(Byte) /\ tcu_tag' = 0
    BY <1>1, <1>2, <2>1, <2>4, <2>6, ClientSends, ChipFacts
  <2>8. WireTypeOK'
    BY <1>2, <1>5, <2>1, <2>2, <2>7, ChipFacts DEF WireTypeOK
  <2> QED
    BY <1>3, <2>7, <2>8 DEF TLInv, SinkInv
<1>7. CASE OtherPrints
  <2>1. PICK i \in Chips \ {0}, b \in OtherBytes :
           TcuSends(i, b) /\ sent' = [sent EXCEPT ![i] = Append(@, b)]
    BY <1>7 DEF OtherPrints
  <2>2. taken' = taken
    BY <1>7 DEF OtherPrints
  <2>3. b \in Byte
    BY TcuLinkAssumption
  <2>4. AllPrinted' = [AllPrinted EXCEPT ![i] = Append(@, b)]
    <3>1. /\ Printed(i) = sent[i] /\ Printed(i)' = Append(sent[i], b)
          /\ \A j \in Chips \ {i} : Printed(j)' = Printed(j)
      BY <1>2, <1>5, <2>1, <2>2 DEF Printed
    <3> QED
      BY <3>1 DEF AllPrinted
  <2>5. ClientState' /\ wire' \in Seq(Byte) /\ tcu_tag' = i
    BY <1>1, <1>2, <2>1, <2>3, <2>4, ClientSends
  <2>6. sent' \in [Chips \ {0} -> Seq(Byte)]
    BY <1>5, <2>1, <2>3
  <2>7. WireTypeOK'
    BY <1>2, <1>5, <2>2, <2>5, <2>6 DEF WireTypeOK
  <2> QED
    BY <1>3, <2>5, <2>7 DEF TLInv, SinkInv
<1> QED
  BY <1>6, <1>7

\* The chip restarts, or a client that is not in the table sends.
LEMMA Disturbed ==
    ASSUME TLInv, TcuDisturbs
    PROVE  TLInv'
<1>1. SinkInv /\ SinkTypeOK /\ THTypeOK /\ WireTypeOK /\ PtyState /\ ClientState
  BY DEF TLInv, SinkInv
<1>2. /\ UNCHANGED <<rsvars, thvars, taken, sent, link>> /\ tcu_tag' = -1 /\ wire = <<>>
      /\ UNCHANGED <<patch, pty, tcu_in_escape, cur_rx_guest, serial>>
      /\ \/ wire' = <<OUTER_ESC, OUTER_RESET>> /\ UNCHANGED foreign
         \/ wire' = <<OUTER_ESC, UnknownTag, LF>> /\ foreign' = TRUE
  BY DEF TcuDisturbs, LinkQuiet, rsvars, thvars, options, uplink
<1>3. SinkInv' /\ THTypeOK' /\ PtyState'
  BY <1>1, <1>2, SinkUnchanged, HostUnchanged
<1>4. UnknownTag \in Byte /\ LF \in Byte /\ OUTER_ESC \in Byte /\ OUTER_RESET \in Byte
  BY TcuLinkAssumption, TcuBytes
<1>5. wire' \in Seq(Byte) /\ foreign' \in BOOLEAN
  <2>1. <<OUTER_ESC, OUTER_RESET>> \in Seq(Byte) /\ <<OUTER_ESC, UnknownTag, LF>> \in Seq(Byte)
    BY <1>4
  <2> QED
    BY <1>1, <1>2, <2>1 DEF WireTypeOK
<1>6. WireTypeOK'
  BY <1>1, <1>2, <1>5 DEF WireTypeOK
<1>7. ClientState'
  <2>1. CASE foreign' = TRUE
    BY <2>1 DEF ClientState
  <2>2. CASE foreign' = foreign /\ ~foreign
    <3>1. wire' = <<OUTER_ESC, OUTER_RESET>> /\ wire' # <<>>
      BY <1>2, <2>2
    <3>2. AllPrinted' = AllPrinted
      BY <1>2, PrintedSame
    <3>3. \A i \in Chips : Given(i)' = Given(i)
      BY <1>2, <3>2, ChipFacts DEF Given
    <3>4. ~tcu_in_escape /\ \A i \in Chips : Follows(patch, Given(i), pty[i])
      BY <1>1, <1>2, <2>2 DEF ClientState
    <3> QED
      BY <1>2, <3>1, <3>3, <3>4 DEF ClientState, Restarting
  <2> QED
    BY <1>2, <1>5, <2>1, <2>2 DEF ClientState
<1> QED
  BY <1>3, <1>6, <1>7 DEF TLInv, SinkInv

\* The host reads a byte.
LEMMA ByteIsRead ==
    ASSUME TLInv, HostReads
    PROVE  TLInv'
<1>1. SinkInv /\ SinkTypeOK /\ THTypeOK /\ WireTypeOK /\ PtyState /\ ClientState
  BY DEF TLInv, SinkInv
<1> DEFINE ch == Head(wire)
<1>2. /\ wire # <<>> /\ TcuFeed(ch) /\ wire' = Tail(wire) /\ link' = Append(link, ch)
      /\ UNCHANGED <<rsvars, serial, tcu_tag, taken, sent, foreign>>
  BY DEF HostReads, rsvars
<1>3. wire \in Seq(Byte) /\ link \in Seq(Byte) /\ ch \in Byte /\ Tail(wire) \in Seq(Byte)
  BY <1>1, <1>2, HeadAndTail DEF WireTypeOK
<1> HIDE DEF ch
<1>4. SinkInv' /\ THTypeOK' /\ PtyState'
  BY <1>1, <1>2, <1>3, SinkUnchanged, FeedKeepsPtys
<1>5. link' \in Seq(Byte)
  BY <1>2, <1>3
<1>6. WireTypeOK'
  BY <1>1, <1>2, <1>3, <1>5 DEF WireTypeOK
<1>7. AllPrinted' = AllPrinted
  BY <1>2, PrintedSame
<1>8. ClientState'
  <2>1. CASE foreign
    BY <1>2, <2>1 DEF ClientState
  <2>2. CASE ~foreign /\ tcu_tag = -1
    BY <1>1, <1>2, <1>7, <2>2, RestartIsRead DEF ch
  <2>3. CASE ~foreign /\ tcu_tag # -1
    BY <1>1, <1>2, <1>7, <2>3, ClientIsRead DEF ch
  <2> QED
    BY <2>1, <2>2, <2>3
<1> QED
  BY <1>4, <1>6, <1>8 DEF TLInv, SinkInv

\* The downlink leaves the PTYs' logs alone.
LEMMA DownlinkMoves ==
    ASSUME TLInv, UserTypes \/ HostForwards \/ ChipReads
    PROVE  TLInv'
<1>1. SinkInv /\ SinkTypeOK /\ THTypeOK /\ WireTypeOK /\ PtyState /\ ClientState
  BY DEF TLInv, SinkInv
<1>2. /\ UNCHANGED <<rsvars, serial, wire, tcu_tag, taken, sent, foreign, link>>
      /\ UNCHANGED <<patch, log_timestamp, pty, tcu_in_escape, cur_rx_guest>>
  BY DEF UserTypes, HostForwards, ForwardInput, ChipReads, rsvars, options, uplink, tcu
<1>3. SinkInv'
  BY <1>1, <1>2, SinkUnchanged
<1>4. PtyState'
  BY <1>1, <1>2 DEF PtyState, StampState
<1>5. WireTypeOK'
  BY <1>1, <1>2 DEF WireTypeOK
<1>6. ClientState'
  BY <1>1, <1>2, PrintedSame, ClientsUnchanged
<1>7. pty_in' \in [AllPtys -> Seq(Byte)] /\ tty_out' \in Seq(Byte) /\ cut' \in BOOLEAN
  <2>1. pty_in \in [AllPtys -> Seq(Byte)] /\ tty_out \in Seq(Byte) /\ cut \in BOOLEAN
    BY <1>1 DEF THTypeOK
  <2>2. CASE UserTypes
    <3>1. PICK i \in AllPtys, b \in TypeBytes : pty_in' = [pty_in EXCEPT ![i] = Append(@, b)]
      BY <2>2 DEF UserTypes
    <3>2. b \in Byte /\ UNCHANGED <<tty_out, cut>>
      BY <2>2, TcuLinkAssumption DEF UserTypes
    <3> QED
      BY <2>1, <3>1, <3>2
  <2>3. CASE HostForwards
    <3>1. PICK i \in AllPtys : ForwardInput(i)
      BY <2>3 DEF HostForwards
    <3>2. PICK n \in 1..ReadSize :
            /\ n <= Len(pty_in[i])
            /\ pty_in' = [pty_in EXCEPT ![i] = SubSeq(@, n + 1, Len(@))]
            /\ \/ UNCHANGED <<tty_out, cut>>
               \/ /\ tty_out' = tty_out \o Encode(i, SubSeq(pty_in[i], 1, n))
                  /\ UNCHANGED cut
               \/ \E k \in 1..(Len(Encode(i, SubSeq(pty_in[i], 1, n))) - 1) :
                     /\ tty_out' = tty_out \o SubSeq(Encode(i, SubSeq(pty_in[i], 1, n)), 1, k)
                     /\ cut' = TRUE
      BY <3>1 DEF ForwardInput
    <3> DEFINE t == pty_in[i]
               d == SubSeq(t, 1, n)
               e == Encode(i, d)
    <3>3. t \in Seq(Byte) /\ n \in Nat /\ n >= 1
      BY <2>1, TcuAssumption
    <3> HIDE DEF t
    <3>4. d \in Seq(Byte) /\ SubSeq(t, n + 1, Len(t)) \in Seq(Byte)
      BY <3>2, <3>3 DEF t
    <3>5. pty_in' \in [AllPtys -> Seq(Byte)]
      BY <2>1, <3>2, <3>4 DEF t
    <3> HIDE DEF d
    <3>6. e \in Seq(Byte)
      BY <3>4, EncodeType
    <3> HIDE DEF e
    <3>7. \A k \in 1..(Len(e) - 1) : SubSeq(e, 1, k) \in Seq(Byte)
      BY <3>6
    <3>8. tty_out' \in Seq(Byte) /\ cut' \in BOOLEAN
      <4>1. \A x \in Seq(Byte) : tty_out \o x \in Seq(Byte)
        BY <2>1
      <4>2. tty_out' = tty_out \/ tty_out' = tty_out \o e
            \/ \E k \in 1..(Len(e) - 1) : tty_out' = tty_out \o SubSeq(e, 1, k)
        BY <3>2 DEF e, d, t
      <4>3. cut' = cut \/ cut' = TRUE
        BY <3>2
      <4>4. tty_out' \in Seq(Byte)
        BY <2>1, <3>6, <3>7, <4>1, <4>2, Zenon
      <4> QED
        BY <2>1, <4>3, <4>4
    <3> QED
      BY <3>5, <3>8
  <2>4. CASE ChipReads
    <3>1. tty_out # <<>> /\ tty_out' = Tail(tty_out) /\ UNCHANGED <<pty_in, cut>>
      BY <2>4 DEF ChipReads
    <3> QED
      BY <2>1, <3>1, HeadAndTail
  <2> QED
    BY <2>2, <2>3, <2>4
<1>8. THTypeOK'
  BY <1>1, <1>2, <1>7 DEF THTypeOK
<1> QED
  BY <1>3, <1>4, <1>5, <1>6, <1>8 DEF TLInv, SinkInv

\* Every step keeps TLInv.
LEMMA LinkStep == TLInv /\ [TLNext]_tlvars => TLInv'
<1> SUFFICES ASSUME TLInv, [TLNext]_tlvars PROVE TLInv'
  OBVIOUS
<1>1. CASE UNCHANGED tlvars
  <2>1. SinkInv /\ SinkTypeOK /\ THTypeOK /\ WireTypeOK /\ PtyState /\ ClientState
    BY DEF TLInv, SinkInv
  <2>2. UNCHANGED <<rsvars, thvars, link>> /\ UNCHANGED <<wire, tcu_tag, taken, sent, foreign>>
    BY <1>1 DEF tlvars, tcu
  <2>3. UNCHANGED <<serial, patch, pty, tcu_in_escape, cur_rx_guest>>
    BY <2>2 DEF rsvars, thvars, options, uplink
  <2>4. SinkInv' /\ THTypeOK' /\ PtyState'
    BY <2>1, <2>2, SinkUnchanged, HostUnchanged
  <2>5. WireTypeOK'
    BY <2>1, <2>2, <2>3 DEF WireTypeOK
  <2>6. ClientState'
    BY <2>1, <2>2, <2>3, PrintedSame, ClientsUnchanged
  <2> QED
    BY <2>4, <2>5, <2>6 DEF TLInv, SinkInv
<1>2. CASE TLNext
  BY <1>2, SinksMove, ByteIsSent, Disturbed, ByteIsRead, DownlinkMoves DEF TLNext
<1> QED
  BY <1>1, <1>2

\* TLInv is an invariant.
LEMMA LinkInvariant == TLSpec => []TLInv
BY LinkInit, LinkStep, PTL DEF TLSpec

-----------------------------------------------------------------------------
(* What the invariant says.                                                *)

\* Of the sinks
LEMMA SinksInOrder == TLInv => SinksKeepOrder
<1> SUFFICES ASSUME TLInv PROVE SinksKeepOrder
  OBVIOUS
<1>1. SinkInv
  BY DEF TLInv, SinkInv
<1>2. \A i : PutBy(i) = PutIn(serial, i)
  BY DEF PutBy, PutIn
<1>3. \A i \in SinkIfs : i = "batch" \/ i \in CharIfs
  BY DEF SinkIfs
<1>4. InBatch \in Seq(SinkByte) /\ (~in_call => InBatch = <<>>)
  <2>1. CASE in_call /\ sink # "null" /\ Sound(batch)
    BY <1>1, <2>1, SinkFacts, InBatchType DEF InBatch
  <2>2. CASE ~(in_call /\ sink # "null" /\ Sound(batch))
    <3>1. <<>> \in Seq(SinkByte)
      OBVIOUS
    <3> QED
      BY <2>2, <3>1 DEF InBatch
  <2> QED
    BY <2>1, <2>2 DEF InBatch
<1>5. ASSUME NEW i \in SinkIfs
      PROVE  /\ IsPrefix(PutBy(i), handed[i])
             /\ (IF i = "batch" THEN ~in_call ELSE char_out[i] = <<>>) => PutBy(i) = handed[i]
  <2> DEFINE e == IF i = "batch" THEN InBatch ELSE char_out[i]
             a == PutIn(serial, i)
  <2>1. a \in Seq(SinkByte) /\ e \in Seq(SinkByte) /\ handed[i] = a \o e
    BY <1>1, <1>3, <1>4, SinkFacts
  <2>2. (IF i = "batch" THEN ~in_call ELSE char_out[i] = <<>>) => e = <<>>
    BY <1>4
  <2> HIDE DEF a, e
  <2>3. IsPrefix(a, a \o e) /\ a \o <<>> = a
    BY <2>1, FrontIsPrefix, ConcatEmptySeq
  <2> QED
    BY <1>2, <2>1, <2>2, <2>3, Zenon DEF a
<1> QED
  BY <1>1, <1>5 DEF SinksKeepOrder, SinkInv, SinkState

\* Of line ends
LEMMA LineEndsDone == TLInv => LinesEndInBoth
<1> SUFFICES ASSUME TLInv, patch, NEW i \in AllPtys PROVE InnerEnds(Plain(pty[i]))
  BY DEF LinesEndInBoth, InnerEnds
<1> QED
  BY DEF TLInv, PtyState, PatchState

\* Of timestamps
LEMMA StampsInPlace == TLInv => StampsBeginLines
BY DEF TLInv, PtyState, StampState, StampsBeginLines

\* Of clients and their PTYs
LEMMA PtysRender == TLInv => ClientsAreApart
<1> SUFFICES ASSUME TLInv PROVE ClientsAreApart
  OBVIOUS
<1>1. Renders(link, Plain(pty[RawPty]))
  BY FollowsRenders DEF TLInv, PtyState, WireTypeOK
<1>2. ASSUME wire = <<>>, ~foreign, NEW i \in Chips PROVE Renders(Printed(i), Plain(pty[i]))
  <2>1. Given(i) = Printed(i)
    BY <1>2 DEF Given, AllPrinted
  <2>2. Printed(i) \in Seq(Byte)
    <3>1. AllPrinted \in [Chips -> Seq(Byte)] /\ AllPrinted[i] = Printed(i)
      BY PrintedType DEF TLInv, AllPrinted
    <3> QED
      BY <3>1
  <2>3. Follows(patch, Printed(i), pty[i])
    BY <1>2, <2>1 DEF TLInv, ClientState
  <2> QED
    BY <2>2, <2>3, FollowsRenders
<1> QED
  BY <1>1, <1>2 DEF ClientsAreApart

-----------------------------------------------------------------------------
(* The downlink.                                                           *)

\* Instead of a byte: the client is selected.
SELECT == -1

\* What the link carries to the chip: for client to (-1 for none), a byte or SELECT.
Item == [to: Chips \cup {-1}, byte: Byte \cup {SELECT}]

TagOf(c) == IF c = -1 THEN OUTER_RESET ELSE ChipTags[c + 1]
\* The byte after the escape of an item that has one
Second(x) == IF x.byte = SELECT THEN TagOf(x.to) ELSE OUTER_ESC

CodeOf == [x \in Item |-> IF x.byte \in {SELECT, OUTER_ESC} THEN <<OUTER_ESC, Second(x)>>
                                                           ELSE <<x.byte>>]
DataOf(i) == [x \in Item |-> IF x.to = i /\ x.byte # SELECT THEN <<x.byte>> ELSE <<>>]

Flat(F, q) == FlattenSeq([k \in DOMAIN q |-> F[q[k]]])

\* Every byte is for the client selected last; c was before the first item.
Routed(q, c) ==
    \A k \in DOMAIN q : q[k].byte # SELECT => q[k].to = IF k = 1 THEN c ELSE q[k - 1].to

\* The chip, whose receiver is rx, has still to read the items q from the bytes out.
Pending(q, out, rx) ==
    /\ Routed(q, rx.client)
    /\ IF rx.escape THEN /\ q # <<>> /\ Head(q).byte \in {SELECT, OUTER_ESC}
                         /\ out = <<Second(Head(q))>> \o Flat(CodeOf, Tail(q))
                    ELSE out = Flat(CodeOf, q)

\* What was typed for a client is what the host has read, past, and what it has not;
\* what the client got and will get are bytes of past in order.
Addressed(q, past, k, in, g) ==
    \A i \in Chips : /\ k[i] = past[i] \o in[i]
                     /\ IsSubSeqOf(g[i] \o Flat(DataOf(i), q), past[i])

DownTypeOK ==
    /\ keyed \in [AllPtys -> Seq(Byte)]
    /\ got \in [Chips -> Seq(Byte)]
    /\ chip_rx \in [client: Chips \cup {-1}, escape: BOOLEAN]

DownState ==
    /\ keyed[RawPty] = <<>> => pty_in[RawPty] = <<>>
    /\ (~cut /\ keyed[RawPty] = <<>>) =>
           \E q \in Seq(Item), past \in [Chips -> Seq(Byte)] :
               Pending(q, tty_out, chip_rx) /\ Addressed(q, past, keyed, pty_in, got)

DownInv == DownTypeOK /\ DownState

\* Flat is a spread of items.
LEMMA FlatType ==
    ASSUME NEW F \in [Item -> Seq(Byte)], NEW q \in Seq(Item)
    PROVE  [k \in DOMAIN q |-> F[q[k]]] \in Seq(Seq(Byte)) /\ Flat(F, q) \in Seq(Byte)
<1>1. PartsOf(F, q) \in Seq(Seq(Byte)) /\ Spread(F, q) \in Seq(Byte)
  BY SpreadType
<1> QED
  BY <1>1, Zenon DEF PartsOf, Flat, Spread

\* It distributes over concatenation.
LEMMA FlatConcat ==
    ASSUME NEW F \in [Item -> Seq(Byte)], NEW q \in Seq(Item), NEW r \in Seq(Item)
    PROVE  Flat(F, q \o r) = Flat(F, q) \o Flat(F, r)
<1>1. SpreadsApart(F, q, r)
  BY SpreadConcat
<1> QED
  BY <1>1, Zenon DEF SpreadsApart, PartsOf, Spread, Flat

\* One item
LEMMA FlatSingle ==
    ASSUME NEW F \in [Item -> Seq(Byte)], NEW x \in Item
    PROVE  Flat(F, <<x>>) = F[x]
<1>1. Spread(F, <<x>>) = F[x]
  BY SpreadSingle
<1> QED
  BY <1>1, Zenon DEF PartsOf, Flat, Spread

\* The first item comes first.
LEMMA FlatFirst ==
    ASSUME NEW F \in [Item -> Seq(Byte)], NEW q \in Seq(Item), q # <<>>
    PROVE  Flat(F, q) = F[Head(q)] \o Flat(F, Tail(q))
<1>1. Spread(F, q) = F[Head(q)] \o Spread(F, Tail(q))
  BY SpreadFirst
<1> QED
  BY <1>1, Zenon DEF PartsOf, Flat, Spread

\* No items
LEMMA FlatEmpty == ASSUME NEW F PROVE Flat(F, <<>>) = <<>>
BY SpreadEmpty DEF Flat, Spread, PartsOf

\* The functions have their types, and no tag is an escape.
LEMMA ItemFacts ==
    /\ CodeOf \in [Item -> Seq(Byte)]
    /\ \A i : DataOf(i) \in [Item -> Seq(Byte)]
    /\ \A x \in Item : x.byte # SELECT => x.byte \in Byte
    /\ \A x \in Item : Second(x) \in Byte /\ TagOf(x.to) \in Byte \ {OUTER_ESC}
    /\ SELECT \notin Byte /\ OUTER_ESC \in Byte
<1>1. SELECT \notin Byte /\ OUTER_ESC \in Byte /\ OUTER_RESET \in Byte \ {OUTER_ESC}
  BY ByteMaxAssumption DEF Byte, SELECT, OUTER_ESC, OUTER_RESET
<1>2. \A x \in Item : x.byte # SELECT => x.byte \in Byte
  BY DEF Item
<1>3. ASSUME NEW x \in Item PROVE TagOf(x.to) \in Byte \ {OUTER_ESC}
  <2>1. CASE x.to = -1
    BY <2>1, <1>1 DEF TagOf
  <2>2. CASE x.to \in Chips
    BY <2>2, TcuAssumption DEF TagOf, Chips
  <2> QED
    BY <2>1, <2>2 DEF Item
<1>4. \A x \in Item : Second(x) \in Byte
  BY <1>1, <1>3 DEF Second
<1>5. ASSUME NEW x \in Item
      PROVE  /\ CodeOf[x] \in Seq(Byte) /\ \A i : DataOf(i)[x] \in Seq(Byte)
  <2> DEFINE e == Second(x)
  <2>1. e \in Byte /\ (x.byte \notin {SELECT, OUTER_ESC} => x.byte \in Byte)
    BY <1>2, <1>4
  <2>2. CodeOf[x] = IF x.byte \in {SELECT, OUTER_ESC} THEN <<OUTER_ESC, e>> ELSE <<x.byte>>
    BY DEF CodeOf
  <2>3. \A i : DataOf(i)[x] = IF x.to = i /\ x.byte # SELECT THEN <<x.byte>> ELSE <<>>
    BY DEF DataOf
  <2> HIDE DEF e
  <2>4. <<OUTER_ESC, e>> \in Seq(Byte) /\ <<>> \in Seq(Byte)
    BY <2>1, <1>1
  <2>5. x.byte \in Byte => <<x.byte>> \in Seq(Byte)
    OBVIOUS
  <2> QED
    BY <1>2, <2>1, <2>2, <2>3, <2>4, <2>5, Zenon
<1>6. CodeOf \in [Item -> Seq(Byte)]
  BY <1>5 DEF CodeOf
<1>7. ASSUME NEW i PROVE DataOf(i) \in [Item -> Seq(Byte)]
  BY <1>5 DEF DataOf
<1> QED
  BY <1>1, <1>2, <1>3, <1>4, <1>6, <1>7

\* The items of data typed for client i
Typed(i, d) == [k \in 1..Len(d) |-> [to |-> i, byte |-> d[k]]]
Selected(i) == [to |-> i, byte |-> SELECT]

\* Their types
LEMMA TypedType ==
    ASSUME NEW i \in Chips, NEW d \in Seq(Byte)
    PROVE  /\ Typed(i, d) \in Seq(Item) /\ Len(Typed(i, d)) = Len(d)
           /\ \A k \in 1..Len(d) : Typed(i, d)[k] = [to |-> i, byte |-> d[k]]
           /\ Selected(i) \in Item
<1>1. \A b \in Byte : [to |-> i, byte |-> b] \in Item
  BY DEF Item
<1>2. Len(d) \in Nat /\ \A k \in 1..Len(d) : d[k] \in Byte
  OBVIOUS
<1>3. \A k \in 1..Len(d) : [to |-> i, byte |-> d[k]] \in Item
  BY <1>1, <1>2
<1>4. Typed(i, d) \in Seq(Item) /\ Len(Typed(i, d)) = Len(d)
  BY <1>2, <1>3 DEF Typed
<1> QED
  BY <1>4 DEF Typed, Selected, Item

\* They carry the data, for client i alone.
LEMMA TypedData ==
    ASSUME NEW i \in Chips, NEW j \in Chips, NEW d \in Seq(Byte)
    PROVE  Flat(DataOf(j), Typed(i, d)) = IF j = i THEN d ELSE <<>>
<1> DEFINE T == {s \in Seq(Byte) : Flat(DataOf(j), Typed(i, s)) = IF j = i THEN s ELSE <<>>}
<1>1. <<>> \in T
  <2>1. Typed(i, <<>>) = <<>> /\ <<>> \in Seq(Byte)
    BY DEF Typed
  <2> QED
    BY <2>1, FlatEmpty
<1>2. ASSUME NEW s \in Seq(Byte), NEW b \in Byte, s \in T PROVE Append(s, b) \in T
  <2> DEFINE x == [to |-> i, byte |-> b]
             a == Append(s, b)
  <2>1. x \in Item /\ <<x>> \in Seq(Item) /\ x.byte # SELECT /\ x.to = i /\ x.byte = b
    BY ItemFacts DEF Item
  <2>2. Typed(i, s) \in Seq(Item) /\ Typed(i, a) \in Seq(Item) /\ a \in Seq(Byte)
    <3>1. a \in Seq(Byte)
      OBVIOUS
    <3> QED
      BY <3>1, TypedType
  <2>3. Typed(i, a) = Append(Typed(i, s), x)
    <3>1. Len(a) = Len(s) + 1 /\ Len(s) \in Nat /\ a[Len(s) + 1] = b /\ \A k \in 1..Len(s) : a[k] = s[k]
      OBVIOUS
    <3>2. Len(Typed(i, a)) = Len(s) + 1 /\ Len(Typed(i, s)) = Len(s)
      BY <2>2, <3>1, TypedType
    <3>3. /\ Append(Typed(i, s), x) \in Seq(Item) /\ Len(Append(Typed(i, s), x)) = Len(s) + 1
          /\ Append(Typed(i, s), x)[Len(s) + 1] = x
          /\ \A k \in 1..Len(s) : Append(Typed(i, s), x)[k] = Typed(i, s)[k]
      <4> HIDE DEF x
      <4> QED
        BY <2>1, <2>2, <3>2
    <3>4. /\ \A k \in 1..Len(s) : Typed(i, s)[k] = [to |-> i, byte |-> s[k]]
          /\ \A k \in 1..Len(a) : Typed(i, a)[k] = [to |-> i, byte |-> a[k]]
      BY <2>2, TypedType
    <3> HIDE DEF a
    <3>5. Typed(i, a)[Len(s) + 1] = x
      BY <3>1, <3>4
    <3>6. \A k \in 1..Len(s) : Typed(i, a)[k] = Typed(i, s)[k]
      <4>1. \A k \in 1..Len(s) : k \in 1..Len(a)
        BY <3>1
      <4> QED
        BY <4>1, <3>1, <3>4, Zenon
    <3> HIDE DEF x
    <3>7. \A k \in 1..(Len(s) + 1) : Typed(i, a)[k] = Append(Typed(i, s), x)[k]
      BY <3>1, <3>3, <3>5, <3>6
    <3> QED
      BY <2>2, <3>2, <3>3, <3>7, SeqEqual
  <2>4. DataOf(j)[x] = IF j = i THEN <<b>> ELSE <<>>
    BY <2>1 DEF DataOf
  <2> HIDE DEF x
  <2>5. Append(Typed(i, s), x) = Typed(i, s) \o <<x>>
    BY <2>1, <2>2, AppendIsConcat, Zenon
  <2>6. Flat(DataOf(j), Typed(i, a)) = Flat(DataOf(j), Typed(i, s)) \o DataOf(j)[x]
    <3>1. DataOf(j) \in [Item -> Seq(Byte)]
      BY ItemFacts
    <3>2. Flat(DataOf(j), Typed(i, s) \o <<x>>) = Flat(DataOf(j), Typed(i, s)) \o Flat(DataOf(j), <<x>>)
      BY <2>1, <2>2, <3>1, FlatConcat
    <3>3. Flat(DataOf(j), <<x>>) = DataOf(j)[x]
      BY <2>1, <3>1, FlatSingle
    <3> QED
      BY <2>3, <2>5, <3>2, <3>3
  <2>7. Append(s, b) = s \o <<b>> /\ <<>> \o <<>> = <<>>
    OBVIOUS
  <2> QED
    BY <1>2, <2>2, <2>4, <2>6, <2>7, Zenon
<1> HIDE DEF T
<1>3. Seq(Byte) \subseteq T
  BY <1>1, <1>2, SeqSetInduction
<1> QED
  BY <1>3 DEF T

\* What pty_input_handler writes for a client
LEMMA EncodeIs ==
    ASSUME NEW i \in Chips, NEW d \in Seq(Byte)
    PROVE  Encode(i, d) = Flat(CodeOf, <<Selected(i)>> \o Typed(i, d))
<1>1. Typed(i, d) \in Seq(Item) /\ Selected(i) \in Item /\ <<Selected(i)>> \in Seq(Item)
  BY TypedType
<1>2. Flat(CodeOf, <<Selected(i)>> \o Typed(i, d)) = CodeOf[Selected(i)] \o Flat(CodeOf, Typed(i, d))
  <2>1. CodeOf \in [Item -> Seq(Byte)]
    BY ItemFacts
  <2>2. Flat(CodeOf, <<Selected(i)>> \o Typed(i, d)) = Flat(CodeOf, <<Selected(i)>>) \o Flat(CodeOf, Typed(i, d))
    BY <1>1, <2>1, FlatConcat
  <2>3. Flat(CodeOf, <<Selected(i)>>) = CodeOf[Selected(i)]
    BY <1>1, <2>1, FlatSingle
  <2> QED
    BY <2>2, <2>3
<1>3. CodeOf[Selected(i)] = <<OUTER_ESC, ChipTags[i + 1]>>
  <2>1. i # -1
    BY TcuAssumption DEF Chips
  <2> QED
    BY <1>1, <2>1 DEF CodeOf, Selected, Second, TagOf
<1>4. DOMAIN Typed(i, d) = 1..Len(d) /\ DOMAIN d = 1..Len(d)
  BY DEF Typed
<1>5. ASSUME NEW k \in 1..Len(d)
      PROVE  CodeOf[Typed(i, d)[k]] =
             IF d[k] = OUTER_ESC THEN <<OUTER_ESC, OUTER_ESC>> ELSE <<d[k]>>
  <2> DEFINE x == Typed(i, d)[k]
  <2>1. x \in Item /\ x = [to |-> i, byte |-> d[k]] /\ d[k] \in Byte
    BY <1>1, TypedType
  <2>2. x.byte = d[k] /\ d[k] # SELECT
    BY <2>1, ItemFacts
  <2> HIDE DEF x
  <2>3. CodeOf[x] = IF d[k] = OUTER_ESC THEN <<OUTER_ESC, OUTER_ESC>> ELSE <<d[k]>>
    BY <2>1, <2>2 DEF CodeOf, Second
  <2> QED
    BY <2>3 DEF x
<1>6. i # RawPty
  BY TcuAssumption DEF Chips, RawPty
<1>7. Flat(CodeOf, Typed(i, d)) =
      FlattenSeq([k \in DOMAIN d |->
                     IF d[k] = OUTER_ESC THEN <<OUTER_ESC, OUTER_ESC>> ELSE <<d[k]>>])
  <2>1. [k \in DOMAIN Typed(i, d) |-> CodeOf[Typed(i, d)[k]]] =
        [k \in DOMAIN d |->
            IF d[k] = OUTER_ESC THEN <<OUTER_ESC, OUTER_ESC>> ELSE <<d[k]>>]
    BY <1>4, <1>5, Zenon
  <2> QED
    BY <2>1 DEF Flat
<1> QED
  BY <1>2, <1>3, <1>6, <1>7 DEF Encode

\* Items that follow are for the client the first one was for.
LEMMA RoutedTail ==
    ASSUME NEW q \in Seq(Item), q # <<>>, NEW c, Routed(q, c)
    PROVE  /\ Routed(Tail(q), Head(q).to)
           /\ Head(q).byte # SELECT => Head(q).to = c
<1> DEFINE n == Len(q)
           t == Tail(q)
<1>1. n \in Nat /\ n >= 1 /\ DOMAIN q = 1..n /\ Head(q) = q[1]
  BY EmptySeq
<1>2. Len(t) = n - 1 /\ DOMAIN t = 1..(n - 1) /\ \A k \in 1..(n - 1) : t[k] = q[k + 1]
  BY <1>1
<1>3. \A k \in 1..n : q[k].byte # SELECT => q[k].to = IF k = 1 THEN c ELSE q[k - 1].to
  BY <1>1 DEF Routed
<1> HIDE DEF n, t
<1>4. ASSUME NEW k \in 1..(n - 1), t[k].byte # SELECT
      PROVE  t[k].to = IF k = 1 THEN q[1].to ELSE t[k - 1].to
  <2> DEFINE m == k + 1
  <2>1. m \in 1..n /\ m # 1 /\ m - 1 = k /\ t[k] = q[m]
    BY <1>1, <1>2
  <2> HIDE DEF m
  <2>2. t[k].to = q[m - 1].to
    BY <1>3, <1>4, <2>1
  <2>3. CASE k = 1
    BY <2>1, <2>2, <2>3
  <2>4. CASE k # 1
    <3>1. k - 1 \in 1..(n - 1) /\ (k - 1) + 1 = k
      BY <1>1, <2>4
    <3>2. t[k - 1] = q[k]
      BY <1>2, <3>1, Zenon
    <3> QED
      BY <2>1, <2>2, <2>4, <3>2
  <2> QED
    BY <2>3, <2>4
<1>5. Routed(t, q[1].to)
  BY <1>2, <1>4 DEF Routed
<1>6. 1 \in 1..n
  BY <1>1
<1> QED
  BY <1>1, <1>3, <1>5, <1>6 DEF t

\* A client is selected before what is sent to it.
LEMMA RoutedConcat ==
    ASSUME NEW q \in Seq(Item), NEW c, Routed(q, c), NEW i \in Chips, NEW d \in Seq(Byte)
    PROVE  Routed(q \o (<<Selected(i)>> \o Typed(i, d)), c)
<1> DEFINE u == <<Selected(i)>> \o Typed(i, d)
           w == q \o u
           m == Len(q)
           n == Len(d)
<1>1. /\ Typed(i, d) \in Seq(Item) /\ Len(Typed(i, d)) = n /\ Selected(i) \in Item
      /\ \A k \in 1..n : Typed(i, d)[k] = [to |-> i, byte |-> d[k]]
      /\ n \in Nat /\ m \in Nat /\ DOMAIN q = 1..m
  BY TypedType
<1>2. <<Selected(i)>> \in Seq(Item)
  BY <1>1
<1>3. /\ u \in Seq(Item) /\ Len(u) = n + 1 /\ u[1] = Selected(i)
      /\ \A k \in 2..(n + 1) : u[k] = Typed(i, d)[k - 1]
  <2> DEFINE v == Typed(i, d)
             x == Selected(i)
  <2>1. v \in Seq(Item) /\ Len(v) = n /\ x \in Item
    BY <1>1
  <2> HIDE DEF v, x, n
  <2>2. /\ <<x>> \o v \in Seq(Item) /\ Len(<<x>> \o v) = n + 1 /\ (<<x>> \o v)[1] = x
        /\ \A k \in 2..(n + 1) : (<<x>> \o v)[k] = v[k - 1]
    BY <1>1, <2>1
  <2> QED
    BY <2>2 DEF v, x
<1>4. \A k \in 1..(n + 1) : u[k].to = i
  <2>1. u[1].to = i
    BY <1>3 DEF Selected
  <2>2. ASSUME NEW k \in 2..(n + 1) PROVE u[k].to = i
    <3>1. k - 1 \in 1..n
      BY <1>1
    <3> HIDE DEF u, n
    <3>2. u[k] = [to |-> i, byte |-> d[k - 1]]
      BY <1>1, <1>3, <3>1, Zenon
    <3> QED
      BY <3>2
  <2>3. \A k \in 1..(n + 1) : k = 1 \/ k \in 2..(n + 1)
    BY <1>1
  <2> HIDE DEF u, n
  <2> QED
    BY <2>1, <2>2, <2>3, Zenon
<1> HIDE DEF u
<1>5. /\ w \in Seq(Item) /\ Len(w) = m + (n + 1) /\ DOMAIN w = 1..(m + (n + 1))
      /\ \A k \in 1..m : w[k] = q[k]
      /\ \A k \in (m + 1)..(m + (n + 1)) : w[k] = u[k - m]
  <2>1. u \in Seq(Item) /\ Len(u) = n + 1 /\ n \in Nat
    BY <1>1, <1>3
  <2> HIDE DEF n
  <2>2. /\ w \in Seq(Item) /\ Len(w) = m + Len(u) /\ DOMAIN w = 1..(m + Len(u))
        /\ \A k \in 1..m : w[k] = q[k]
        /\ \A k \in (m + 1)..(m + Len(u)) : w[k] = u[k - m]
    BY <2>1
  <2> QED
    BY <2>1, <2>2, Zenon
<1>6. u[1].byte = SELECT
  BY <1>3 DEF Selected
<1> HIDE DEF w, m, n
<1>7. ASSUME NEW k \in DOMAIN w, w[k].byte # SELECT
      PROVE  w[k].to = IF k = 1 THEN c ELSE w[k - 1].to
  <2>1. CASE k \in 1..m
    <3>1. q[k].to = IF k = 1 THEN c ELSE q[k - 1].to
      BY <1>1, <1>5, <1>7, <2>1 DEF Routed
    <3>2. k # 1 => k - 1 \in 1..m
      BY <1>1, <2>1
    <3>3. w[k] = q[k] /\ (k # 1 => w[k - 1] = q[k - 1])
      BY <1>5, <2>1, <3>2, Zenon
    <3> QED
      BY <3>1, <3>3, Zenon
  <2>2. CASE k \in (m + 1)..(m + (n + 1))
    <3> DEFINE j == k - m
    <3>1. j \in 1..(n + 1) /\ w[k] = u[j]
      BY <1>1, <1>5, <2>2
    <3>2. j # 1
      BY <3>1, <1>6, <1>7
    <3>3. /\ j - 1 \in 1..(n + 1) /\ k - 1 \in (m + 1)..(m + (n + 1)) /\ (k - 1) - m = j - 1
          /\ k # 1
      BY <1>1, <2>2, <3>1, <3>2
    <3>4. w[k - 1] = u[j - 1]
      BY <1>5, <3>3
    <3> HIDE DEF j
    <3> QED
      BY <1>4, <3>1, <3>3, <3>4, Zenon
  <2>3. k \in 1..m \/ k \in (m + 1)..(m + (n + 1))
    BY <1>1, <1>5
  <2> QED
    BY <2>1, <2>2, <2>3
<1>8. Routed(w, c)
  BY <1>7 DEF Routed
<1> QED
  BY <1>8 DEF w, u

-----------------------------------------------------------------------------
\* The chip's receiver after byte ch, and what its clients have then
IsData(rx, ch) == IF rx.escape THEN ch = OUTER_ESC ELSE ch # OUTER_ESC
Tagged(ch) == {i \in Chips : ChipTags[i + 1] = ch}
NextRx(rx, ch) ==
    [ client |-> IF rx.escape /\ ~IsData(rx, ch)
                 THEN IF Tagged(ch) = {} THEN -1 ELSE CHOOSE i \in Tagged(ch) : TRUE
                 ELSE rx.client,
      escape |-> ~rx.escape /\ ~IsData(rx, ch) ]
NextGot(rx, ch, g) ==
    IF IsData(rx, ch) /\ rx.client >= 0 THEN [g EXCEPT ![rx.client] = Append(@, ch)] ELSE g

\* A tag names its client.
LEMMA TagNames ==
    ASSUME NEW c \in Chips \cup {-1}
    PROVE  (IF Tagged(TagOf(c)) = {} THEN -1 ELSE CHOOSE i \in Tagged(TagOf(c)) : TRUE) = c
<1>1. CASE c = -1
  <2>1. Tagged(OUTER_RESET) = {}
    BY ChipFacts DEF Tagged
  <2> QED
    BY <1>1, <2>1 DEF TagOf
<1>2. CASE c \in Chips
  <2>1. TagOf(c) = ChipTags[c + 1]
    BY <1>2, ChipFacts DEF TagOf
  <2>2. Tagged(TagOf(c)) = {c}
    BY <1>2, <2>1, ChipFacts DEF Tagged
  <2> QED
    BY <2>2
<1> QED
  BY <1>1, <1>2

RxType == [client: Chips \cup {-1}, escape: BOOLEAN]

\* The chip reads the first byte of an item with an escape.
LEMMA EscapeIsRead ==
    ASSUME NEW q \in Seq(Item), NEW rx \in RxType, NEW out \in Seq(Byte), out # <<>>,
           NEW g \in [Chips -> Seq(Byte)], Pending(q, out, rx),
           ~rx.escape, Head(q).byte \in {SELECT, OUTER_ESC}
    PROVE  /\ q # <<>> /\ Pending(q, Tail(out), NextRx(rx, Head(out)))
           /\ NextGot(rx, Head(out), g) = g
<1>1. Routed(q, rx.client) /\ out = Flat(CodeOf, q)
  BY DEF Pending
<1>2. q # <<>>
  BY <1>1, FlatEmpty
<1> DEFINE x == Head(q)
           e == Second(x)
           r == Flat(CodeOf, Tail(q))
<1>3. x \in Item /\ Tail(q) \in Seq(Item)
  BY <1>2, HeadAndTail
<1>4. e \in Byte /\ r \in Seq(Byte) /\ OUTER_ESC \in Byte /\ CodeOf \in [Item -> Seq(Byte)]
  BY <1>3, ItemFacts, FlatType
<1>5. out = CodeOf[x] \o r
  BY <1>1, <1>2, <1>4, FlatFirst
<1>6. CodeOf[x] = <<OUTER_ESC, e>>
  BY <1>3 DEF CodeOf
<1> HIDE DEF e, r
<1>7. <<OUTER_ESC, e>> \o r = <<OUTER_ESC>> \o (<<e>> \o r)
  BY <1>4
<1> DEFINE v == <<e>> \o r
<1>8. v \in Seq(Byte)
  BY <1>4
<1> HIDE DEF v
<1>9. Head(<<OUTER_ESC>> \o v) = OUTER_ESC /\ Tail(<<OUTER_ESC>> \o v) = v
  BY <1>4, <1>8
<1>10. Head(out) = OUTER_ESC /\ Tail(out) = v
  BY <1>5, <1>6, <1>7, <1>9 DEF v
<1>11. ~IsData(rx, Head(out))
  BY <1>10 DEF IsData
<1>12. NextRx(rx, Head(out)) = [client |-> rx.client, escape |-> TRUE]
  BY <1>11 DEF NextRx
<1> QED
  BY <1>1, <1>2, <1>10, <1>11, <1>12 DEF Pending, NextGot, v, e, r

\* The chip reads a byte for a client.
LEMMA DataIsRead ==
    ASSUME NEW q \in Seq(Item), NEW rx \in RxType, NEW out \in Seq(Byte), out # <<>>,
           NEW g \in [Chips -> Seq(Byte)], Pending(q, out, rx),
           Head(q).byte # SELECT, ~rx.escape => Head(q).byte # OUTER_ESC
    PROVE  /\ q # <<>> /\ Pending(Tail(q), Tail(out), NextRx(rx, Head(out)))
           /\ \A i \in Chips : NextGot(rx, Head(out), g)[i] \o Flat(DataOf(i), Tail(q)) =
                               g[i] \o Flat(DataOf(i), q)
<1> DEFINE x == Head(q)
           r == Flat(CodeOf, Tail(q))
<1>1. Routed(q, rx.client) /\ q # <<>>
  <2>1. ~rx.escape => out = Flat(CodeOf, q)
    BY DEF Pending
  <2> QED
    BY <2>1, FlatEmpty DEF Pending
<1>2. x \in Item /\ Tail(q) \in Seq(Item) /\ x.byte \in Byte
  BY <1>1, HeadAndTail, ItemFacts
<1>3. r \in Seq(Byte) /\ OUTER_ESC \in Byte /\ CodeOf \in [Item -> Seq(Byte)]
  BY <1>2, ItemFacts, FlatType
<1>4. x.to = rx.client /\ Routed(Tail(q), rx.client)
  BY <1>1, RoutedTail
<1>5. out = <<x.byte>> \o r /\ IsData(rx, x.byte)
  <2>1. CASE rx.escape
    <3>1. x.byte = OUTER_ESC /\ out = <<Second(x)>> \o r
      BY <2>1 DEF Pending
    <3> QED
      BY <2>1, <3>1 DEF Second, IsData
  <2>2. CASE ~rx.escape
    <3>1. out = CodeOf[x] \o r
      BY <1>1, <1>3, <2>2, FlatFirst DEF Pending
    <3>2. CodeOf[x] = <<x.byte>>
      BY <1>2, <2>2 DEF CodeOf
    <3> QED
      BY <2>2, <3>1, <3>2 DEF IsData
  <2> QED
    BY <2>1, <2>2
<1> DEFINE b == x.byte
<1>6. b \in Byte
  BY <1>2
<1> HIDE DEF b, r
<1>a. \A y \in Seq(Byte), f \in Seq(Byte) : Append(y, b) \o f = y \o (<<b>> \o f)
  <2> SUFFICES ASSUME NEW y \in Seq(Byte), NEW f \in Seq(Byte)
               PROVE  Append(y, b) \o f = y \o (<<b>> \o f)
    OBVIOUS
  <2>1. <<b>> \in Seq(Byte) /\ Append(y, b) = y \o <<b>>
    BY <1>6
  <2>2. Regrouped(y, <<b>>, f)
    BY <2>1, Regroup, Zenon
  <2> QED
    BY <2>1, <2>2, Zenon DEF Regrouped
<1>7. Head(<<b>> \o r) = b /\ Tail(<<b>> \o r) = r
  BY <1>3, <1>6
<1>8. Head(out) = b /\ Tail(out) = r /\ IsData(rx, b)
  BY <1>5, <1>7 DEF b
<1>9. NextRx(rx, b) = [client |-> rx.client, escape |-> FALSE]
  BY <1>8 DEF NextRx
<1>10. Pending(Tail(q), r, NextRx(rx, b))
  BY <1>4, <1>9 DEF Pending, r
<1>11. ASSUME NEW i \in Chips
       PROVE  NextGot(rx, b, g)[i] \o Flat(DataOf(i), Tail(q)) = g[i] \o Flat(DataOf(i), q)
  <2> DEFINE f == Flat(DataOf(i), Tail(q))
             h == DataOf(i)[x]
  <2>1. DataOf(i) \in [Item -> Seq(Byte)]
    BY ItemFacts
  <2>2. Flat(DataOf(i), q) = h \o f /\ f \in Seq(Byte)
    BY <1>1, <1>2, <2>1, FlatFirst, FlatType
  <2>3. h = IF rx.client = i THEN <<b>> ELSE <<>>
    BY <1>2, <1>4 DEF DataOf, b
  <2>4. i >= 0 /\ (rx.client >= 0 <=> rx.client # -1)
    <3>1. \A c \in Chips : c >= 0
      BY TcuAssumption DEF Chips
    <3> QED
      BY <3>1 DEF RxType
  <2> HIDE DEF f, h
  <2>5. CASE rx.client = i
    <3>1. NextGot(rx, b, g)[i] = Append(g[i], b)
      BY <1>8, <2>4, <2>5 DEF NextGot
    <3>2. g[i] \in Seq(Byte)
      OBVIOUS
    <3>3. Append(g[i], b) \o f = g[i] \o (<<b>> \o f)
      BY <1>a, <2>2, <3>2
    <3> QED
      BY <2>2, <2>3, <2>5, <3>1, <3>3, Zenon DEF f
  <2>6. CASE rx.client # i
    <3>1. NextGot(rx, b, g)[i] = g[i]
      BY <2>6 DEF NextGot
    <3>2. <<>> \o f = f
      BY <2>2
    <3> QED
      BY <2>2, <2>3, <2>6, <3>1, <3>2, Zenon DEF f
  <2> QED
    BY <2>5, <2>6
<1> QED
  BY <1>1, <1>8, <1>10, <1>11

\* The chip reads which client is selected.
LEMMA TagIsRead ==
    ASSUME NEW q \in Seq(Item), NEW rx \in RxType, NEW out \in Seq(Byte), out # <<>>,
           NEW g \in [Chips -> Seq(Byte)], Pending(q, out, rx),
           Head(q).byte = SELECT, rx.escape
    PROVE  /\ q # <<>> /\ Pending(Tail(q), Tail(out), NextRx(rx, Head(out)))
           /\ NextGot(rx, Head(out), g) = g
           /\ \A i \in Chips : Flat(DataOf(i), Tail(q)) = Flat(DataOf(i), q)
<1> DEFINE x == Head(q)
           r == Flat(CodeOf, Tail(q))
           e == TagOf(x.to)
<1>1. Routed(q, rx.client) /\ q # <<>> /\ out = <<e>> \o r
  BY DEF Pending, Second
<1>2. x \in Item /\ Tail(q) \in Seq(Item) /\ x.to \in Chips \cup {-1}
  <2>1. x \in Item /\ Tail(q) \in Seq(Item)
    BY <1>1, HeadAndTail
  <2> QED
    BY <2>1 DEF Item
<1>3. r \in Seq(Byte) /\ e \in Byte \ {OUTER_ESC} /\ CodeOf \in [Item -> Seq(Byte)]
  BY <1>2, ItemFacts, FlatType
<1>4. Routed(Tail(q), x.to)
  BY <1>1, RoutedTail
<1> HIDE DEF r
<1>5. (IF Tagged(e) = {} THEN -1 ELSE CHOOSE i \in Tagged(e) : TRUE) = x.to
  BY <1>2, TagNames
<1> HIDE DEF e
<1>6. Head(<<e>> \o r) = e /\ Tail(<<e>> \o r) = r
  BY <1>3
<1>7. Head(out) = e /\ Tail(out) = r /\ ~IsData(rx, e)
  BY <1>1, <1>3, <1>6 DEF IsData
<1>8. NextRx(rx, e) = [client |-> x.to, escape |-> FALSE]
  BY <1>5, <1>7 DEF NextRx
<1>9. Pending(Tail(q), r, NextRx(rx, e))
  BY <1>4, <1>8 DEF Pending, r
<1>10. ASSUME NEW i \in Chips PROVE Flat(DataOf(i), Tail(q)) = Flat(DataOf(i), q)
  <2>1. DataOf(i) \in [Item -> Seq(Byte)]
    BY ItemFacts
  <2>2. Flat(DataOf(i), q) = DataOf(i)[x] \o Flat(DataOf(i), Tail(q)) /\ Flat(DataOf(i), Tail(q)) \in Seq(Byte)
    BY <1>1, <1>2, <2>1, FlatFirst, FlatType
  <2>3. DataOf(i)[x] = <<>>
    BY <1>2 DEF DataOf
  <2>4. \A s \in Seq(Byte) : <<>> \o s = s
    OBVIOUS
  <2> QED
    BY <2>2, <2>3, <2>4
<1> QED
  BY <1>1, <1>7, <1>9, <1>10 DEF NextGot

\* The greeting of open_tty_device: a byte for no client and a reset
LEMMA DownInit == TLInit => DownInv
<1> SUFFICES ASSUME TLInit PROVE DownInv
  OBVIOUS
<1>0. /\ keyed = [i \in AllPtys |-> <<>>] /\ got = [i \in Chips |-> <<>>]
      /\ chip_rx = [client |-> -1, escape |-> FALSE]
      /\ pty_in = [i \in AllPtys |-> <<>>] /\ tty_out = <<NUL, OUTER_ESC, OUTER_RESET>>
  BY DEF TLInit, THInit
<1>1. DownTypeOK
  BY <1>0 DEF DownTypeOK
<1>2. \A i \in AllPtys : keyed[i] = <<>> /\ pty_in[i] = <<>>
  BY <1>0
<1>3. RawPty \in AllPtys /\ Chips \subseteq AllPtys
  BY ChipFacts
<1> DEFINE x == [to |-> -1, byte |-> NUL]
           y == [to |-> -1, byte |-> SELECT]
           q == <<x, y>>
           past == [i \in Chips |-> <<>>]
<1>4. /\ NUL \in Byte /\ NUL # SELECT /\ NUL # OUTER_ESC
  BY ByteMaxAssumption DEF Byte, NUL, SELECT, OUTER_ESC
<1>5. x \in Item /\ y \in Item /\ x.byte = NUL /\ y.byte = SELECT /\ x.to = -1 /\ y.to = -1
  BY <1>4 DEF Item
<1>6. CodeOf[x] = <<NUL>> /\ CodeOf[y] = <<OUTER_ESC, OUTER_RESET>>
  BY <1>4, <1>5 DEF CodeOf, Second, TagOf
<1>7. \A i \in Chips : DataOf(i)[x] = <<>> /\ DataOf(i)[y] = <<>>
  BY <1>5, ChipFacts DEF DataOf
<1> HIDE DEF x, y
<1>8. <<x>> \in Seq(Item) /\ <<y>> \in Seq(Item) /\ q = <<x>> \o <<y>> /\ q \in Seq(Item)
  <2>1. <<x>> \in Seq(Item) /\ <<y>> \in Seq(Item)
    BY <1>5
  <2>2. <<x, y>> = Append(<<x>>, y) /\ <<x, y>> \in Seq(Item)
    BY <1>5
  <2>3. Append(<<x>>, y) = <<x>> \o <<y>>
    BY <1>5, <2>1, AppendIsConcat, Zenon
  <2> QED
    BY <2>1, <2>2, <2>3
<1>9. ASSUME NEW F \in [Item -> Seq(Byte)] PROVE Flat(F, q) = F[x] \o F[y]
  <2>1. Flat(F, <<x>> \o <<y>>) = Flat(F, <<x>>) \o Flat(F, <<y>>)
    BY <1>8, FlatConcat
  <2>2. Flat(F, <<x>>) = F[x] /\ Flat(F, <<y>>) = F[y]
    BY <1>5, FlatSingle
  <2> QED
    BY <1>8, <2>1, <2>2
<1>10. Flat(CodeOf, q) = tty_out
  <2>1. Flat(CodeOf, q) = <<NUL>> \o <<OUTER_ESC, OUTER_RESET>>
    BY <1>6, <1>9, ItemFacts
  <2>2. <<NUL>> \o <<OUTER_ESC, OUTER_RESET>> = <<NUL, OUTER_ESC, OUTER_RESET>>
    <3>1. ASSUME NEW a \in Byte, NEW b \in Byte, NEW c \in Byte
          PROVE  <<a>> \o <<b, c>> = <<a, b, c>>
      <4> DEFINE u == <<a>>
                 v == <<b>>
      <4>1. /\ u \in Seq(Byte) /\ v \in Seq(Byte) /\ <<b, c>> = Append(v, c)
            /\ <<a, b, c>> = Append(Append(u, b), c)
        OBVIOUS
      <4>2. Append(u, b) = u \o v
        BY <4>1, AppendIsConcat, Zenon
      <4> HIDE DEF u, v
      <4>3. u \o Append(v, c) = Append(u \o v, c)
        BY <4>1
      <4> QED
        BY <4>1, <4>2, <4>3 DEF u
    <3>2. NUL \in Byte /\ OUTER_ESC \in Byte /\ OUTER_RESET \in Byte
      BY <1>4, ByteMaxAssumption DEF Byte, OUTER_ESC, OUTER_RESET
    <3> QED
      BY <3>1, <3>2
  <2> QED
    BY <1>0, <2>1, <2>2
<1>11. Routed(q, -1)
  BY <1>5 DEF Routed
<1>12. Pending(q, tty_out, chip_rx)
  BY <1>0, <1>10, <1>11 DEF Pending
<1>13. past \in [Chips -> Seq(Byte)] /\ \A i \in Chips : past[i] = <<>>
  OBVIOUS
<1>14. IsSubSeqOf(<<>>, <<>>)
  <2> DEFINE f == [i \in 1..0 |-> i]
  <2>1. Len(<<>>) = 0 /\ f \in [1..0 -> 1..0] /\ \A i \in 1..0 : FALSE
    OBVIOUS
  <2> QED
    BY <2>1 DEF IsSubSeqOf
<1>15. Addressed(q, past, keyed, pty_in, got)
  <2> SUFFICES ASSUME NEW i \in Chips
               PROVE  /\ keyed[i] = past[i] \o pty_in[i]
                      /\ IsSubSeqOf(got[i] \o Flat(DataOf(i), q), past[i])
    BY DEF Addressed
  <2>1. Flat(DataOf(i), q) = <<>> \o <<>>
    BY <1>7, <1>9, ItemFacts
  <2>2. <<>> \o <<>> = <<>>
    OBVIOUS
  <2>3. keyed[i] = <<>> /\ pty_in[i] = <<>> /\ got[i] = <<>> /\ past[i] = <<>>
    BY <1>0, <1>2, <1>3, <1>13
  <2> QED
    BY <1>14, <2>1, <2>2, <2>3
<1> HIDE DEF q, past
<1>16. DownState
  BY <1>2, <1>3, <1>8, <1>12, <1>13, <1>15 DEF DownState
<1> QED
  BY <1>1, <1>16 DEF DownInv

\* The chip reads a byte.
LEMMA ChipKeeps ==
    ASSUME TLInv, DownInv, ChipReads
    PROVE  DownInv'
<1> DEFINE ch == Head(tty_out)
<1>1. tty_out \in Seq(Byte) /\ tty_out # <<>> /\ ch \in Byte
  <2>1. tty_out \in Seq(Byte) /\ tty_out # <<>>
    BY DEF TLInv, THTypeOK, ChipReads
  <2> QED
    BY <2>1, HeadAndTail
<1>2. chip_rx \in RxType /\ got \in [Chips -> Seq(Byte)] /\ keyed \in [AllPtys -> Seq(Byte)]
  BY DEF DownInv, DownTypeOK, RxType
<1>3. /\ got' = NextGot(chip_rx, ch, got) /\ chip_rx' = NextRx(chip_rx, ch)
      /\ tty_out' = Tail(tty_out) /\ UNCHANGED <<keyed, pty_in, cut>>
  BY DEF ChipReads, NextGot, NextRx, IsData, Tagged
<1> HIDE DEF ch
<1>4. DownTypeOK'
  <2>1. got' \in [Chips -> Seq(Byte)]
    <3>1. CASE IsData(chip_rx, ch) /\ chip_rx.client >= 0
      <4>1. chip_rx.client \in Chips
        BY <1>2, <3>1 DEF RxType
      <4>2. Append(got[chip_rx.client], ch) \in Seq(Byte)
        BY <1>1, <1>2, <4>1
      <4>3. got' = [got EXCEPT ![chip_rx.client] = Append(got[chip_rx.client], ch)]
        BY <1>3, <3>1 DEF NextGot
      <4> QED
        BY <1>2, <4>1, <4>2, <4>3
    <3>2. CASE ~(IsData(chip_rx, ch) /\ chip_rx.client >= 0)
      BY <1>2, <1>3, <3>2 DEF NextGot
    <3> QED
      BY <3>1, <3>2
  <2>2. chip_rx' \in RxType
    <3>1. Tagged(ch) # {} => (CHOOSE i \in Tagged(ch) : TRUE) \in Chips
      BY DEF Tagged
    <3> QED
      BY <1>2, <1>3, <3>1 DEF NextRx, RxType
  <2> QED
    BY <1>2, <1>3, <2>1, <2>2 DEF DownTypeOK, RxType
<1>5. keyed'[RawPty] = <<>> => pty_in'[RawPty] = <<>>
  BY <1>3 DEF DownInv, DownState
<1>6. ASSUME ~cut, keyed[RawPty] = <<>>
      PROVE  \E q \in Seq(Item), past \in [Chips -> Seq(Byte)] :
                 Pending(q, tty_out', chip_rx') /\ Addressed(q, past, keyed', pty_in', got')
  <2>1. PICK q \in Seq(Item), past \in [Chips -> Seq(Byte)] :
            Pending(q, tty_out, chip_rx) /\ Addressed(q, past, keyed, pty_in, got)
    BY <1>6 DEF DownInv, DownState
  <2>2. \E r \in Seq(Item) :
            /\ Pending(r, tty_out', chip_rx')
            /\ \A i \in Chips : got'[i] \o Flat(DataOf(i), r) = got[i] \o Flat(DataOf(i), q)
    <3>1. CASE ~chip_rx.escape /\ Head(q).byte \in {SELECT, OUTER_ESC}
      <4>1. Pending(q, tty_out', chip_rx') /\ got' = got
        BY <1>1, <1>2, <1>3, <2>1, <3>1, EscapeIsRead DEF ch
      <4> QED
        BY <4>1
    <3>2. CASE Head(q).byte # SELECT /\ (~chip_rx.escape => Head(q).byte # OUTER_ESC)
      <4>1. /\ q # <<>> /\ Pending(Tail(q), tty_out', chip_rx')
            /\ \A i \in Chips :
                   got'[i] \o Flat(DataOf(i), Tail(q)) = got[i] \o Flat(DataOf(i), q)
        BY <1>1, <1>2, <1>3, <2>1, <3>2, DataIsRead DEF ch
      <4>2. Tail(q) \in Seq(Item)
        BY <4>1, HeadAndTail
      <4> QED
        BY <4>1, <4>2, Zenon
    <3>3. CASE Head(q).byte = SELECT /\ chip_rx.escape
      <4>1. /\ q # <<>> /\ Pending(Tail(q), tty_out', chip_rx') /\ got' = got
            /\ \A i \in Chips : Flat(DataOf(i), Tail(q)) = Flat(DataOf(i), q)
        BY <1>1, <1>2, <1>3, <2>1, <3>3, TagIsRead DEF ch
      <4>2. Tail(q) \in Seq(Item)
        BY <4>1, HeadAndTail
      <4> QED
        BY <4>1, <4>2, Zenon
    <3> QED
      BY <3>1, <3>2, <3>3
  <2>3. PICK r \in Seq(Item) :
            /\ Pending(r, tty_out', chip_rx')
            /\ \A i \in Chips : got'[i] \o Flat(DataOf(i), r) = got[i] \o Flat(DataOf(i), q)
    BY <2>2
  <2>4. Addressed(r, past, keyed', pty_in', got')
    BY <1>3, <2>1, <2>3 DEF Addressed
  <2> QED
    BY <2>3, <2>4
<1>7. DownState'
  BY <1>3, <1>5, <1>6 DEF DownState
<1> QED
  BY <1>4, <1>7 DEF DownInv

\* A user types.
LEMMA TypingKeeps ==
    ASSUME TLInv, DownInv, UserTypes
    PROVE  DownInv'
<1>1. PICK t \in AllPtys, b \in TypeBytes : /\ pty_in' = [pty_in EXCEPT ![t] = Append(@, b)]
                                            /\ keyed' = [keyed EXCEPT ![t] = Append(@, b)]
  BY DEF UserTypes
<1>2. UNCHANGED <<tty_out, cut, chip_rx, got>> /\ b \in Byte
  BY TcuLinkAssumption DEF UserTypes, chip
<1>3. pty_in \in [AllPtys -> Seq(Byte)] /\ keyed \in [AllPtys -> Seq(Byte)] /\ DownTypeOK
  BY DEF TLInv, THTypeOK, DownInv, DownTypeOK
<1>4. DownTypeOK'
  BY <1>1, <1>2, <1>3 DEF DownTypeOK
<1>5. Append(keyed[t], b) # <<>> /\ Append(keyed[t], b) \in Seq(Byte)
  <2>1. keyed[t] \in Seq(Byte)
    BY <1>3
  <2> QED
    BY <1>2, <2>1
<1>6. RawPty \in AllPtys /\ Chips \subseteq AllPtys
  BY ChipFacts
<1>7. keyed'[RawPty] = <<>> => /\ t # RawPty /\ keyed[RawPty] = <<>>
                               /\ pty_in'[RawPty] = pty_in[RawPty]
  BY <1>1, <1>3, <1>5, <1>6
<1>8. ASSUME ~cut, keyed'[RawPty] = <<>>
      PROVE  \E q \in Seq(Item), past \in [Chips -> Seq(Byte)] :
                 Pending(q, tty_out', chip_rx') /\ Addressed(q, past, keyed', pty_in', got')
  <2>1. PICK q \in Seq(Item), past \in [Chips -> Seq(Byte)] :
            Pending(q, tty_out, chip_rx) /\ Addressed(q, past, keyed, pty_in, got)
    BY <1>7, <1>8 DEF DownInv, DownState
  <2>2. ASSUME NEW i \in Chips PROVE keyed'[i] = past[i] \o pty_in'[i]
    <3>1. keyed[i] = past[i] \o pty_in[i] /\ past[i] \in Seq(Byte) /\ pty_in[i] \in Seq(Byte)
      BY <1>3, <1>6, <2>1 DEF Addressed
    <3>2. CASE i # t
      <4>1. keyed'[i] = keyed[i] /\ pty_in'[i] = pty_in[i]
        BY <1>1, <1>3, <1>6, <3>2
      <4> QED
        BY <3>1, <4>1
    <3>3. CASE i = t
      <4>1. keyed'[i] = Append(keyed[i], b) /\ pty_in'[i] = Append(pty_in[i], b)
        BY <1>1, <1>3, <1>6, <3>3
      <4>2. \A u \in Seq(Byte), v \in Seq(Byte) : Append(u \o v, b) = u \o Append(v, b)
        <5> SUFFICES ASSUME NEW u \in Seq(Byte), NEW v \in Seq(Byte)
                     PROVE  Append(u \o v, b) = u \o Append(v, b)
          OBVIOUS
        <5>1. Append(u \o v, b) = (u \o v) \o <<b>> /\ Append(v, b) = v \o <<b>>
          BY <1>2
        <5>2. (u \o v) \o <<b>> = u \o (v \o <<b>>)
          BY <1>2
        <5> QED
          BY <5>1, <5>2, Zenon
      <4> QED
        BY <3>1, <4>1, <4>2, Zenon
    <3> QED
      BY <3>2, <3>3
  <2>3. Addressed(q, past, keyed', pty_in', got')
    BY <1>2, <2>1, <2>2 DEF Addressed
  <2> QED
    BY <1>2, <2>1, <2>3
<1>9. DownState'
  BY <1>2, <1>7, <1>8 DEF DownState, DownInv
<1> QED
  BY <1>4, <1>9 DEF DownInv

\* The host forwards what was typed into a PTY.
LEMMA ForwardKeeps ==
    ASSUME TLInv, DownInv, HostForwards
    PROVE  DownInv'
<1>1. PICK t \in AllPtys : ForwardInput(t)
  BY DEF HostForwards
<1>2. /\ pty_in \in [AllPtys -> Seq(Byte)] /\ tty_out \in Seq(Byte) /\ cut \in BOOLEAN
      /\ keyed \in [AllPtys -> Seq(Byte)] /\ got \in [Chips -> Seq(Byte)] /\ DownTypeOK
  BY DEF TLInv, THTypeOK, DownInv, DownTypeOK
<1>3. PICK n \in 1..ReadSize :
        /\ n <= Len(pty_in[t])
        /\ pty_in' = [pty_in EXCEPT ![t] = SubSeq(@, n + 1, Len(@))]
        /\ \/ UNCHANGED <<tty_out, cut>>
           \/ /\ tty_out' = tty_out \o Encode(t, SubSeq(pty_in[t], 1, n))
              /\ UNCHANGED cut
           \/ cut' = TRUE
  BY <1>1 DEF ForwardInput
<1>4. pty_in[t] # <<>> /\ UNCHANGED <<keyed, chip_rx, got>>
  BY <1>1 DEF ForwardInput, HostForwards, chip
<1>5. DownTypeOK'
  BY <1>2, <1>4 DEF DownTypeOK
<1>6. RawPty \in AllPtys /\ Chips \subseteq AllPtys /\ AllPtys = Chips \cup {RawPty}
  BY ChipFacts
<1>7. keyed[RawPty] = <<>> => t # RawPty /\ pty_in[RawPty] = <<>>
  BY <1>4 DEF DownInv, DownState
<1>8. keyed'[RawPty] = <<>> => pty_in'[RawPty] = <<>>
  BY <1>2, <1>3, <1>4, <1>6, <1>7
<1>9. ASSUME ~cut', keyed[RawPty] = <<>>
      PROVE  \E q \in Seq(Item), past \in [Chips -> Seq(Byte)] :
                 Pending(q, tty_out', chip_rx') /\ Addressed(q, past, keyed', pty_in', got')
  <2> DEFINE s == pty_in[t]
             d == SubSeq(s, 1, n)
             e == SubSeq(s, n + 1, Len(s))
             w == <<Selected(t)>> \o Typed(t, d)
  <2>0. t \in Chips
    BY <1>6, <1>7, <1>9
  <2>1. s \in Seq(Byte) /\ n \in Nat /\ n <= Len(s) /\ n >= 1
    BY <1>2, <1>3, TcuAssumption
  <2>a. s = pty_in[t] /\ pty_in' = [pty_in EXCEPT ![t] = e]
    BY <1>3
  <2>b. ~cut /\ (tty_out' = tty_out \/ tty_out' = tty_out \o Encode(t, d))
    BY <1>3, <1>9
  <2> HIDE DEF s
  <2>2. d \in Seq(Byte) /\ e \in Seq(Byte) /\ s = d \o e
    BY <2>1
  <2> HIDE DEF d, e
  <2>3. PICK q \in Seq(Item), past \in [Chips -> Seq(Byte)] :
            Pending(q, tty_out, chip_rx) /\ Addressed(q, past, keyed, pty_in, got)
    BY <1>9, <2>b DEF DownInv, DownState
  <2> DEFINE next == [past EXCEPT ![t] = @ \o d]
  <2>4. next \in [Chips -> Seq(Byte)] /\ next[t] = past[t] \o d /\ \A i \in Chips : i # t => next[i] = past[i]
    BY <2>0, <2>2, <2>3
  <2> HIDE DEF next
  <2>5. ASSUME NEW i \in Chips PROVE keyed'[i] = next[i] \o pty_in'[i]
    <3>1. keyed[i] = past[i] \o pty_in[i] /\ past[i] \in Seq(Byte)
      BY <2>3 DEF Addressed
    <3>2. CASE i # t
      <4>1. pty_in'[i] = pty_in[i] /\ next[i] = past[i]
        BY <1>2, <1>6, <2>4, <2>a, <3>2
      <4> QED
        BY <1>4, <3>1, <4>1
    <3>3. CASE i = t
      <4>1. pty_in'[i] = e /\ pty_in[i] = d \o e /\ next[i] = past[i] \o d
        BY <1>2, <1>6, <2>2, <2>4, <2>a, <3>3
      <4>2. \A p \in Seq(Byte) : p \o (d \o e) = (p \o d) \o e
        <5>1. \A p \in Seq(Byte) : Regrouped(p, d, e)
          BY <2>2, Regroup, Zenon
        <5> QED
          BY <5>1, Zenon DEF Regrouped
      <4> QED
        BY <1>4, <3>1, <4>1, <4>2, Zenon
    <3> QED
      BY <3>2, <3>3
  <2>6. ASSUME NEW i \in Chips
        PROVE  /\ IsSubSeqOf(got[i] \o Flat(DataOf(i), q), past[i])
               /\ got[i] \in Seq(Byte) /\ past[i] \in Seq(Byte) /\ Flat(DataOf(i), q) \in Seq(Byte)
               /\ got[i] \o Flat(DataOf(i), q) \in Seq(Byte)
    <3>1. got[i] \in Seq(Byte) /\ past[i] \in Seq(Byte) /\ Flat(DataOf(i), q) \in Seq(Byte)
      BY <1>2, <2>3, ItemFacts, FlatType
    <3> DEFINE f == Flat(DataOf(i), q)
    <3> HIDE DEF f
    <3>2. f \in Seq(Byte) => got[i] \o f \in Seq(Byte)
      BY <3>1
    <3> QED
      BY <2>3, <3>1, <3>2 DEF Addressed, f
  <2>7. CASE tty_out' = tty_out
    <3>1. ASSUME NEW i \in Chips PROVE IsSubSeqOf(got[i] \o Flat(DataOf(i), q), next[i])
      <4>1. CASE i = t
        BY <2>2, <2>4, <2>6, <4>1, SubSeqOfLonger
      <4>2. CASE i # t
        BY <2>4, <2>6, <4>2
      <4> QED
        BY <4>1, <4>2
    <3>2. Addressed(q, next, keyed', pty_in', got')
      BY <1>4, <2>5, <3>1 DEF Addressed
    <3> QED
      BY <1>4, <2>3, <2>4, <2>7, <3>2
  <2>8. CASE tty_out' = tty_out \o Encode(t, d)
    <3>1. Typed(t, d) \in Seq(Item) /\ Selected(t) \in Item
      BY <2>0, <2>2, TypedType
    <3>2. <<Selected(t)>> \in Seq(Item)
      BY <3>1
    <3>3. w \in Seq(Item)
      BY <3>1, <3>2
    <3>4. Encode(t, d) = Flat(CodeOf, w)
      BY <2>0, <2>2, EncodeIs
    <3>5. Routed(q \o w, chip_rx.client)
      BY <2>0, <2>2, <2>3, RoutedConcat DEF Pending
    <3>6. ASSUME NEW i \in Chips
          PROVE  Flat(DataOf(i), w) = IF i = t THEN d ELSE <<>>
      <4>1. DataOf(i) \in [Item -> Seq(Byte)]
        BY ItemFacts
      <4>2. Flat(DataOf(i), w) = Flat(DataOf(i), <<Selected(t)>>) \o Flat(DataOf(i), Typed(t, d))
        BY <3>1, <3>2, <4>1, FlatConcat
      <4>3. Flat(DataOf(i), <<Selected(t)>>) = DataOf(i)[Selected(t)]
        BY <3>1, <4>1, FlatSingle
      <4>4. DataOf(i)[Selected(t)] = <<>>
        BY <3>1 DEF DataOf, Selected
      <4>5. Flat(DataOf(i), Typed(t, d)) = IF i = t THEN d ELSE <<>>
        BY <2>0, <2>2, TypedData
      <4>6. <<>> \o d = d /\ <<>> \o <<>> = <<>>
        BY <2>2
      <4> QED
        BY <4>2, <4>3, <4>4, <4>5, <4>6
    <3> HIDE DEF w
    <3>7. q \o w \in Seq(Item)
      BY <3>3
    <3>8. Pending(q \o w, tty_out', chip_rx)
      <4>1. CodeOf \in [Item -> Seq(Byte)] /\ \A x \in Item : Second(x) \in Byte
        BY ItemFacts
      <4>2. CASE ~chip_rx.escape
        <5>1. Flat(CodeOf, q \o w) = Flat(CodeOf, q) \o Flat(CodeOf, w)
          BY <3>3, <4>1, FlatConcat
        <5>2. tty_out = Flat(CodeOf, q)
          BY <2>3, <4>2 DEF Pending
        <5> QED
          BY <2>8, <3>4, <3>5, <4>2, <5>1, <5>2 DEF Pending
      <4>3. CASE chip_rx.escape
        <5>1. /\ q # <<>> /\ Head(q).byte \in {SELECT, OUTER_ESC}
              /\ tty_out = <<Second(Head(q))>> \o Flat(CodeOf, Tail(q))
          BY <2>3, <4>3 DEF Pending
        <5>2. Head(q) \in Item /\ Tail(q) \in Seq(Item)
          BY <5>1, HeadAndTail
        <5>3. Head(q \o w) = Head(q) /\ Tail(q \o w) = Tail(q) \o w /\ q \o w # <<>>
          <6> HIDE DEF Item
          <6>1. q = <<Head(q)>> \o Tail(q)
            BY <5>1, HeadAndTail
          <6> DEFINE h == Head(q)
                     l == Tail(q)
          <6> HIDE DEF h, l
          <6>2. h \in Item /\ l \in Seq(Item) /\ q = <<h>> \o l
            BY <5>2, <6>1 DEF h, l
          <6>3. <<h>> \in Seq(Item) /\ l \o w \in Seq(Item)
            BY <3>3, <6>2
          <6>4. q \o w = <<h>> \o (l \o w)
            <7> DEFINE o == <<h>>
            <7>1. o \in Seq(Item)
              BY <6>3
            <7> HIDE DEF o
            <7>2. (o \o l) \o w = o \o (l \o w)
              BY <3>3, <6>2, <7>1
            <7> QED
              BY <6>2, <7>2 DEF o
          <6>5. /\ Head(<<h>> \o (l \o w)) = h /\ Tail(<<h>> \o (l \o w)) = l \o w
                /\ <<h>> \o (l \o w) # <<>>
            <7> DEFINE v == l \o w
            <7>1. v \in Seq(Item)
              BY <6>3
            <7> HIDE DEF v
            <7>2. Head(<<h>> \o v) = h /\ Tail(<<h>> \o v) = v /\ <<h>> \o v # <<>>
              BY <6>2, <7>1
            <7> QED
              BY <7>2 DEF v
          <6> QED
            BY <6>4, <6>5 DEF h, l
        <5> DEFINE x == Second(Head(q))
                   a == Flat(CodeOf, Tail(q))
                   b == Flat(CodeOf, w)
        <5>4. Flat(CodeOf, Tail(q) \o w) = a \o b
          BY <3>3, <4>1, <5>2, FlatConcat
        <5>5. x \in Byte /\ a \in Seq(Byte) /\ b \in Seq(Byte)
          BY <3>3, <4>1, <5>2, FlatType
        <5>6. tty_out = <<x>> \o a /\ tty_out' = tty_out \o b
          BY <2>8, <3>4, <5>1
        <5> HIDE DEF x, a, b
        <5>7. (<<x>> \o a) \o b = <<x>> \o (a \o b)
          <6> DEFINE o == <<x>>
          <6>1. o \in Seq(Byte)
            BY <5>5
          <6> HIDE DEF o
          <6>2. (o \o a) \o b = o \o (a \o b)
            BY <5>5, <6>1
          <6> QED
            BY <6>2 DEF o
        <5>8. tty_out' = <<Second(Head(q \o w))>> \o Flat(CodeOf, Tail(q \o w))
          BY <5>3, <5>4, <5>6, <5>7 DEF x
        <5> QED
          BY <3>5, <4>3, <5>1, <5>3, <5>8 DEF Pending
      <4> QED
        BY <4>2, <4>3
    <3>9. ASSUME NEW i \in Chips PROVE IsSubSeqOf(got[i] \o Flat(DataOf(i), q \o w), next[i])
      <4> DEFINE f == Flat(DataOf(i), q)
                 g == got[i]
      <4>1. DataOf(i) \in [Item -> Seq(Byte)]
        BY ItemFacts
      <4>2. Flat(DataOf(i), q \o w) = f \o Flat(DataOf(i), w)
        BY <3>3, <4>1, FlatConcat
      <4>3. g \in Seq(Byte) /\ f \in Seq(Byte) /\ g \o f \in Seq(Byte) /\ IsSubSeqOf(g \o f, past[i]) /\ past[i] \in Seq(Byte)
        BY <2>6
      <4> HIDE DEF f, g
      <4>4. CASE i = t
        <5>1. g \o (f \o d) = (g \o f) \o d
          <6>1. Regrouped(g, f, d)
            BY <2>2, <4>3, Regroup, Zenon
          <6> QED
            BY <6>1, Zenon DEF Regrouped
        <5>2. IsSubSeqOf((g \o f) \o d, past[i] \o d)
          BY <2>2, <4>3, SubSeqOfConcat
        <5> QED
          BY <2>4, <3>6, <4>2, <4>4, <5>1, <5>2 DEF g
      <4>5. CASE i # t
        <5>1. f \o <<>> = f
          BY <4>3, ConcatEmptySeq
        <5> QED
          BY <2>4, <3>6, <4>2, <4>3, <4>5, <5>1 DEF g
      <4> QED
        BY <4>4, <4>5
    <3>10. Addressed(q \o w, next, keyed', pty_in', got')
      BY <1>4, <2>5, <3>9 DEF Addressed
    <3> QED
      BY <1>4, <2>4, <3>7, <3>8, <3>10
  <2> QED
    BY <2>7, <2>8, <2>b
<1>10. DownState'
  BY <1>4, <1>8, <1>9 DEF DownState
<1> QED
  BY <1>5, <1>10 DEF DownInv

\* Every step keeps DownInv.
LEMMA DownStep == TLInv /\ DownInv /\ [TLNext]_tlvars => DownInv'
<1> SUFFICES ASSUME TLInv, DownInv, [TLNext]_tlvars PROVE DownInv'
  OBVIOUS
<1>1. CASE UserTypes \/ HostForwards \/ ChipReads
  BY <1>1, ChipKeeps, TypingKeeps, ForwardKeeps
<1>2. CASE UNCHANGED <<keyed, pty_in, tty_out, cut, chip_rx, got>>
  <2>1. DownTypeOK'
    BY <1>2 DEF DownInv, DownTypeOK
  <2>2. DownState'
    BY <1>2 DEF DownInv, DownState
  <2> QED
    BY <2>1, <2>2 DEF DownInv
<1>3. ClientPrints \/ SinkPrints \/ SerialByte \/ OtherPrints \/ TcuDisturbs \/ HostReads
      \/ UNCHANGED tlvars => UNCHANGED <<keyed, pty_in, tty_out, cut, chip_rx, got>>
  BY DEF ClientPrints, SinkPrints, SerialByte, OtherPrints, TcuDisturbs, HostReads, TcuFeed,
         tlvars, thvars, chip
<1> QED
  BY <1>1, <1>2, <1>3 DEF TLNext

\* Of the downlink
LEMMA OnlyTheirs == TLInv /\ DownInv => OnlyAddressedClient
<1> SUFFICES ASSUME TLInv, DownInv, ~cut, keyed[RawPty] = <<>>, NEW i \in Chips
             PROVE  IsSubSeqOf(got[i], keyed[i])
  BY DEF OnlyAddressedClient
<1>1. PICK q \in Seq(Item), past \in [Chips -> Seq(Byte)] :
          Pending(q, tty_out, chip_rx) /\ Addressed(q, past, keyed, pty_in, got)
  BY DEF DownInv, DownState
<1> DEFINE f == Flat(DataOf(i), q)
<1>2. f \in Seq(Byte) /\ got[i] \in Seq(Byte) /\ past[i] \in Seq(Byte)
  BY <1>1, ItemFacts, FlatType DEF DownInv, DownTypeOK
<1>3. pty_in[i] \in Seq(Byte)
  BY ChipFacts DEF TLInv, THTypeOK
<1>4. keyed[i] = past[i] \o pty_in[i] /\ IsSubSeqOf(got[i] \o f, past[i])
  BY <1>1 DEF Addressed
<1> HIDE DEF f
<1>5. IsSubSeqOf(got[i], past[i])
  BY <1>2, <1>4, FrontOfSubSeq
<1> QED
  BY <1>2, <1>3, <1>4, <1>5, SubSeqOfLonger

-----------------------------------------------------------------------------
\* Every variable of the sinks and of the host keeps its type: what a client
\* prints, with whatever indices, stays bytes on the device, and the parser's
\* current client is always one of the table.
THEOREM TcuTypeCorrect == TLSpec => []TLTypeOK
<1>1. TLInv => TLTypeOK
  BY DEF TLInv, SinkTypeOK, TLTypeOK
<1> QED
  BY <1>1, LinkInvariant, PTL

\* PassthruSink, DebugSink and NullSink: the threads of the interfaces share the
\* device without a lock, and still each interface's bytes are there in its order,
\* all of them when its call returns, and the batch buffer is empty then.
THEOREM SinksDeliver == TLSpec => []SinksKeepOrder
BY SinksInOrder, LinkInvariant, PTL

\* patch2flush_stream: a line end that is followed by text has both halves in every
\* PTY, whatever comes to other PTYs in between.
THEOREM LineEndsComplete == TLSpec => []LinesEndInBoth
BY LineEndsDone, LinkInvariant, PTL

\* flush_stream: a log has timestamps where lines begin and nowhere else, also
\* around the bytes that patch2flush_stream adds.
THEOREM TimestampsInPlace == TLSpec => []StampsBeginLines
BY StampsInPlace, LinkInvariant, PTL

\* tty_input_handler: a PTY has exactly what its client printed, for every table of
\* tags, every interleaving of clients and every restart of the chip, until a client
\* that is not in the table sends; the raw PTY always has all that was read.
THEOREM ClientsStayApart == TLSpec => []ClientsAreApart
BY PtysRender, LinkInvariant, PTL

\* pty_input_handler and write_data_to_uart: what is typed into the PTYs of several
\* clients is forwarded in pieces of any size, some of which time out; every client
\* receives bytes of its own PTY alone, in their order, escapes and tags undone.
THEOREM ClientsGetTheirs == TLSpec => []OnlyAddressedClient
<1>1. TLSpec => [](TLInv /\ DownInv)
  <2>1. TLInit => TLInv /\ DownInv
    BY LinkInit, DownInit
  <2>2. TLInv /\ DownInv /\ [TLNext]_tlvars => TLInv' /\ DownInv'
    BY LinkStep, DownStep
  <2> QED
    BY <2>1, <2>2, PTL DEF TLSpec
<1> QED
  BY <1>1, OnlyTheirs, PTL
=============================================================================
