-------------------------- MODULE MuxUplinkProofs --------------------------
(***************************************************************************)
(* Proofs about MuxUplink, the daemon, the link and the demuxer together,  *)
(* for every alphabet, every number of clients and sessions, every size of *)
(* the channel and of reads, and all that clients write.                   *)
(***************************************************************************)
EXTENDS MuxUplink, HostDemuxProofs, FiniteSetTheorems

-----------------------------------------------------------------------------
(* The daemon, for every pool size, channel capacity and bound on sessions *)
(* and writes.                                                             *)

USE ByteMaxAssumption, DaemonAssumption

HoldingPCs == {"reply", "undo", "connected", "read", "data", "disconnected", "free"}

\* The session of c has been announced and its end has not.
Announced(c) == pc[c] \in {"read", "data", "disconnected"}

\* IDs that framing uses are never free.
ReservedStayUsed == \A i \in ReservedIds : used[i]

\* While the sink runs, the last frame queued for an ID tells where the session
\* that has the ID is; an ID nobody has was left with a DISCONNECTED.
LastFrame ==
    sink =>
        /\ \A c \in Clients :
              Holds(c) /\ id[c] # 0 => (last[id[c]] # "disconnected" <=> Announced(c))
        /\ \A i \in Byte \ {0} :
              (\A c \in Clients : Holds(c) => id[c] # i) => last[i] = "disconnected"

PoolInv == ReservedStayUsed /\ UniqueIds /\ PoolMatchesSessions

DInv == DTypeOK /\ PoolInv /\ LastFrame

-----------------------------------------------------------------------------
(* The pool.                                                               *)

\* The bytes that are special are bytes, and three different ones.
LEMMA SpecialBytes ==
    /\ ReservedIds = {0, ByteMax - 2, ByteMax - 1}
    /\ CONTROL = ByteMax - 2 /\ ESC = ByteMax - 1
    /\ ReservedIds \subseteq Byte
BY DEF ReservedIds, DEFAULT, CONTROL, ESC, Byte

\* next always is an ID alloc may look at.
LEMMA CandidateIsId ==
    ASSUME next \in 1..ByteMax, NEW k \in 0..(ByteMax - 1)
    PROVE  Candidate(k) \in 1..ByteMax /\ Successor(Candidate(k)) \in 1..ByteMax
BY DEF Candidate, Successor

\* A step of one task that neither gets nor gives up an ID, and leaves the pool
\* alone.
LEMMA PoolKept ==
    ASSUME DTypeOK, PoolInv, UNCHANGED <<pool, id>>,
           NEW c \in Clients, NEW label \in PCs, Goto(c, label),
           Holds(c) <=> label \in HoldingPCs
    PROVE  PoolInv'
<1>1. \A d \in Clients : Holds(d)' <=> Holds(d)
    BY DEF DTypeOK, Goto, Holds, HoldingPCs
<1>2. used' = used /\ id' = id
    BY DEF pool
<1> QED
    BY <1>1, <1>2 DEF PoolInv, ReservedStayUsed, UniqueIds, PoolMatchesSessions

\* alloc: an ID that no session has, or 0.
LEMMA AllocKeepsPool ==
    ASSUME DTypeOK, PoolInv, NEW c \in Clients, ~Holds(c),
           AllocatesId(c), Goto(c, "reply")
    PROVE  /\ PoolInv'
           /\ used' \in [Byte -> BOOLEAN] /\ next' \in 1..ByteMax /\ id' \in [Clients -> Byte]
           /\ \A d \in Clients \ {c} : id'[d] = id[d]
           /\ id'[c] # 0 => \A d \in Clients : Holds(d) => id[d] # id'[c]
<1>h. \A d \in Clients : Holds(d)' <=> (d = c \/ Holds(d))
    BY DEF DTypeOK, Goto, Holds
<1>1. CASE \E k \in 0..(ByteMax - 1) :
              /\ ~Taken(Candidate(k))
              /\ id' = [id EXCEPT ![c] = Candidate(k)]
              /\ used' = [used EXCEPT ![Candidate(k)] = TRUE]
              /\ next' = Successor(Candidate(k))
  <2>1. PICK k \in 0..(ByteMax - 1) :
              /\ ~used[Candidate(k)]
              /\ id' = [id EXCEPT ![c] = Candidate(k)]
              /\ used' = [used EXCEPT ![Candidate(k)] = TRUE]
              /\ next' = Successor(Candidate(k))
      BY <1>1 DEF Taken
  <2> DEFINE i == Candidate(k)
  <2>2. i \in Byte /\ i # 0 /\ next' \in 1..ByteMax
      BY <2>1, CandidateIsId, SMTT(30) DEF DTypeOK, Byte
  <2> HIDE DEF i
  <2>3. ~used[i] /\ id' = [id EXCEPT ![c] = i] /\ used' = [used EXCEPT ![i] = TRUE]
      BY <2>1 DEF i
  <2>4. i \notin ReservedIds
      BY <2>3 DEF PoolInv, ReservedStayUsed
  <2>5. \A d \in Clients : Holds(d) => id[d] # i
      BY <2>2, <2>3, <2>4 DEF PoolInv, PoolMatchesSessions
  <2>6. used' \in [Byte -> BOOLEAN] /\ id' \in [Clients -> Byte]
      BY <2>2, <2>3 DEF DTypeOK
  <2>7. /\ \A j \in Byte : used'[j] <=> (j = i \/ used[j])
        /\ id'[c] = i
        /\ \A d \in Clients \ {c} : id'[d] = id[d]
      BY <2>2, <2>3 DEF DTypeOK
  <2>8. ReservedStayUsed'
      BY <2>7, SpecialBytes DEF PoolInv, ReservedStayUsed
  <2>9. UniqueIds'
      BY <2>4, <2>5, <2>7, <1>h DEF PoolInv, UniqueIds, ReservedIds
  <2>10. PoolMatchesSessions'
      BY <2>7, <1>h DEF PoolInv, PoolMatchesSessions
  <2> QED BY <2>2, <2>5, <2>6, <2>7, <2>8, <2>9, <2>10 DEF PoolInv
<1>2. CASE id' = [id EXCEPT ![c] = 0] /\ UNCHANGED pool
  <2>1. used' = used /\ next' = next
      BY <1>2 DEF pool
  <2>2. id' \in [Clients -> Byte] /\ id'[c] = 0 /\ \A d \in Clients \ {c} : id'[d] = id[d]
      BY <1>2 DEF DTypeOK, Byte
  <2>3. UniqueIds'
      BY <2>2, <1>h, SpecialBytes DEF PoolInv, UniqueIds
  <2>4. PoolMatchesSessions'
      BY <2>1, <2>2, <1>h DEF PoolInv, PoolMatchesSessions, ReservedIds, DEFAULT
  <2> QED BY <2>1, <2>2, <2>3, <2>4 DEF PoolInv, ReservedStayUsed, DTypeOK
<1> QED BY <1>1, <1>2 DEF AllocatesId

\* free: the ID of c, which nobody else has, is free again.
LEMMA FreeKeepsPool ==
    ASSUME DTypeOK, PoolInv, NEW c \in Clients, Holds(c),
           FreesId(c), Return(c)
    PROVE  PoolInv' /\ used' \in [Byte -> BOOLEAN] /\ next' = next
<1>1. \A d \in Clients : Holds(d)' <=> (d # c /\ Holds(d))
    BY DEF DTypeOK, Return, Goto, Holds
<1>2. id[c] \in Byte /\ \A d \in Clients \ {c} : id'[d] = id[d]
    BY DEF DTypeOK, Return
<1>3. /\ used' \in [Byte -> BOOLEAN]
      /\ \A j \in Byte : used'[j] <=> IF j = id[c] THEN j \in ReservedIds ELSE used[j]
  <2> DEFINE i == id[c]
             v == i \in ReservedIds
  <2>1. used \in [Byte -> BOOLEAN] /\ i \in Byte /\ used' = [used EXCEPT ![i] = v]
      BY <1>2 DEF DTypeOK, FreesId
  <2>2. v \in BOOLEAN
      OBVIOUS
  <2> HIDE DEF i
  <2>3. \A j \in Byte : used'[j] = IF j = i THEN v ELSE used[j]
      BY <2>1
  <2>4. used' \in [Byte -> BOOLEAN]
      BY <2>1, <2>2
  <2> QED BY <2>3, <2>4 DEF i
<1>4. ReservedStayUsed'
    BY <1>3, SpecialBytes DEF PoolInv, ReservedStayUsed
<1>5. UniqueIds'
    BY <1>1, <1>2 DEF PoolInv, UniqueIds
<1>6. PoolMatchesSessions'
  <2> SUFFICES ASSUME NEW j \in Byte \ ReservedIds
               PROVE  used'[j] <=> \E d \in Clients : Holds(d)' /\ id'[d] = j
      BY DEF PoolMatchesSessions
  <2>1. j # 0 /\ (used[j] <=> \E d \in Clients : Holds(d) /\ id[d] = j)
      BY DEF PoolInv, PoolMatchesSessions, ReservedIds, DEFAULT
  <2>2. CASE j = id[c]
      BY <1>1, <1>2, <1>3, <2>1, <2>2 DEF PoolInv, UniqueIds
  <2>3. CASE j # id[c]
      BY <1>1, <1>2, <1>3, <2>1, <2>3
  <2> QED BY <2>2, <2>3
<1> QED BY <1>3, <1>4, <1>5, <1>6 DEF PoolInv, FreesId

-----------------------------------------------------------------------------
(* The channel.                                                            *)

\* A step of one task that queues nothing and neither announces nor ends its
\* session.
LEMMA LastFrameKept ==
    ASSUME DTypeOK, LastFrame, UNCHANGED <<id, last, sink>>,
           NEW c \in Clients, NEW label \in PCs, Goto(c, label),
           Holds(c) <=> label \in HoldingPCs,
           Announced(c) <=> label \in {"read", "data", "disconnected"}
    PROVE  LastFrame'
<1>1. \A d \in Clients : (Holds(d)' <=> Holds(d)) /\ (Announced(d)' <=> Announced(d))
    BY DEF DTypeOK, Goto, Holds, HoldingPCs, Announced
<1> QED BY <1>1 DEF LastFrame

\* A task that queues a frame for its ID, or finds the channel closed.
LEMMA LastFrameQueued ==
    ASSUME DTypeOK, UniqueIds, LastFrame, UNCHANGED id,
           NEW c \in Clients, NEW label \in HoldingPCs, Goto(c, label), Holds(c),
           NEW kind \in FrameKinds, NEW body, Queued(kind, c, body),
           kind # "disconnected" <=> label \in {"read", "data", "disconnected"}
    PROVE  LastFrame'
<1>1. \A d \in Clients \ {c} : (Holds(d)' <=> Holds(d)) /\ (Announced(d)' <=> Announced(d))
    BY DEF DTypeOK, Goto, Holds, Announced
<1>2. Holds(c)' /\ (Announced(c)' <=> kind # "disconnected")
    BY DEF DTypeOK, Goto, Holds, HoldingPCs, Announced
<1>3. /\ id[c] \in Byte /\ sink
      /\ \A i \in Byte : last'[i] = IF i = id[c] THEN kind ELSE last[i]
    BY DEF DTypeOK, Queued
<1>4. \A d \in Clients : id[d] \in Byte
    BY DEF DTypeOK
<1>5. \A d \in Clients \ {c} : Holds(d) /\ id[d] # 0 => id[d] # id[c]
    BY DEF UniqueIds
<1>6. \A d \in Clients :
         Holds(d)' /\ id[d] # 0 => (last'[id[d]] # "disconnected" <=> Announced(d)')
    BY <1>1, <1>2, <1>3, <1>4, <1>5 DEF LastFrame
<1>7. \A i \in Byte \ {0} :
         (\A d \in Clients : Holds(d)' => id[d] # i) => last'[i] = "disconnected"
    BY <1>1, <1>2, <1>3 DEF LastFrame
<1> QED BY <1>6, <1>7 DEF LastFrame

\* A queued frame fits the channel.
LEMMA QueuedType ==
    ASSUME DTypeOK, NEW c \in Clients, NEW kind \in FrameKinds, NEW body \in Seq(Byte),
           Queued(kind, c, body)
    PROVE  /\ chan' \in Seq(Frame) /\ Len(chan') <= ChanCap
           /\ last' \in [Byte -> FrameKinds]
           /\ UNCHANGED <<inflight, sink>>
<1> DEFINE f == [kind |-> kind, id |-> id[c], body |-> body]
<1>1. f \in Frame
    BY DEF DTypeOK, Frame
<1>2. chan' = Append(chan, f) /\ chan \in Seq(Frame) /\ Len(chan) < ChanCap
    BY DEF DTypeOK, Queued, Room
<1> HIDE DEF f
<1>3. chan' \in Seq(Frame) /\ Len(chan') <= ChanCap
    BY <1>1, <1>2
<1> QED BY <1>3 DEF DTypeOK, Queued

-----------------------------------------------------------------------------
(* The steps of the daemon.                                                *)

\* A session that returns leaves with a DISCONNECTED, or was never announced.
LEMMA LastFrameAfterReturn ==
    ASSUME DTypeOK, LastFrame, NEW c \in Clients, Holds(c), ~Announced(c),
           Return(c), UNCHANGED <<last, sink>>
    PROVE  LastFrame'
<1>1. \A d \in Clients : (Holds(d)' <=> (d # c /\ Holds(d)))
                         /\ (d # c => (Announced(d)' <=> Announced(d)) /\ id'[d] = id[d])
    BY DEF DTypeOK, Return, Goto, Holds, Announced
<1>2. sink /\ id[c] # 0 => last[id[c]] = "disconnected"
    BY DEF LastFrame
<1> QED BY <1>1, <1>2 DEF LastFrame

\* What a task that returns leaves is well typed.
LEMMA ReturnType ==
    ASSUME DTypeOK, NEW c \in Clients, Return(c)
    PROVE  /\ pc' \in [Clients -> PCs] /\ peer' \in [Clients -> BOOLEAN]
           /\ id' \in [Clients -> Byte] /\ name' \in [Clients -> Seq(Byte)]
           /\ unread' \in [Clients -> Seq(Byte)] /\ written' \in [Clients -> Nat]
<1>1. pc' \in [Clients -> PCs]
    BY DEF DTypeOK, Return, Goto, PCs
<1>2. peer' \in [Clients -> BOOLEAN]
    BY DEF DTypeOK, Return
<1>3. id' \in [Clients -> Byte] /\ written' \in [Clients -> Nat]
    BY DEF DTypeOK, Return, Byte
<1>4. name' \in [Clients -> Seq(Byte)] /\ unread' \in [Clients -> Seq(Byte)]
    BY DEF DTypeOK, Return
<1> QED BY <1>1, <1>2, <1>3, <1>4

\* The client's end of a connection keeps the invariant.
LEMMA ClientEndStep ==
    ASSUME DInv, NEW c \in Clients, ClientEnd(c)
    PROVE  DInv' /\ chan' = chan
<1> USE DEF DInv
<1>1. CASE Connect(c)
  <2>1. /\ UNCHANGED <<used, next, unread, written, id, name, payload, chan, inflight, sink, last>>
        /\ pc[c] = "none" /\ Goto(c, "enroll") /\ sessions' = sessions + 1
        /\ peer' = [peer EXCEPT ![c] = TRUE]
      BY <1>1 DEF Connect, pool, queue, Goto
  <2>2. DTypeOK'
    <3>1. pc' \in [Clients -> PCs] /\ peer' \in [Clients -> BOOLEAN]
        BY <2>1 DEF DTypeOK, Goto, PCs
    <3> QED BY <2>1, <3>1 DEF DTypeOK
  <2>3. PoolInv'
      BY <2>1, PoolKept DEF pool, Holds, HoldingPCs, PCs
  <2>4. LastFrame'
      BY <2>1, LastFrameKept DEF Holds, HoldingPCs, PCs, Announced
  <2> QED BY <2>1, <2>2, <2>3, <2>4
<1>2. CASE Close(c)
  <2>1. /\ UNCHANGED <<used, next, unread, written, pc, id, name, payload, chan, inflight,
                       sink, last, sessions>>
        /\ peer' = [peer EXCEPT ![c] = FALSE]
      BY <1>2 DEF Close, pool, task, queue
  <2>2. DTypeOK'
      BY <2>1 DEF DTypeOK
  <2>3. PoolInv' /\ LastFrame'
      BY <2>1 DEF PoolInv, ReservedStayUsed, UniqueIds, PoolMatchesSessions, LastFrame,
                  Holds, Announced
  <2> QED BY <2>1, <2>2, <2>3
<1>3. CASE \E b \in DataBytes : Write(c, b)
  <2>1. PICK b \in DataBytes : Write(c, b)
      BY <1>3
  <2>2. /\ UNCHANGED <<used, next, pc, id, name, payload, chan, inflight, sink, last,
                       sessions, peer>>
        /\ unread' = [unread EXCEPT ![c] = Append(@, b)]
        /\ written' = [written EXCEPT ![c] = @ + 1]
        /\ b \in Byte
      BY <2>1 DEF Write, pool, task, queue
  <2>3. DTypeOK'
    <3>1. unread' \in [Clients -> Seq(Byte)] /\ written' \in [Clients -> Nat]
        BY <2>2 DEF DTypeOK
    <3> QED BY <2>2, <3>1 DEF DTypeOK
  <2>4. PoolInv' /\ LastFrame'
      BY <2>2 DEF PoolInv, ReservedStayUsed, UniqueIds, PoolMatchesSessions, LastFrame,
                  Holds, Announced
  <2> QED BY <2>2, <2>3, <2>4
<1> QED BY <1>1, <1>2, <1>3 DEF ClientEnd

\* The sink task keeps the invariant, and queues nothing.
LEMMA SinkStep ==
    ASSUME DInv, SinkTask
    PROVE  DInv' /\ Len(chan') <= Len(chan)
<1> USE DEF DInv
<1>1. UNCHANGED <<used, next, peer, unread, written, pc, id, name, payload, last, sessions>>
    BY DEF SinkTask, SinkRecv, SinkWrite, SinkFail, pool, socket, task
<1>2. /\ chan' \in Seq(Frame) /\ Len(chan') <= Len(chan)
      /\ inflight' \in Seq(Frame) /\ Len(inflight') <= 1
  <2>1. chan \in Seq(Frame) /\ inflight \in Seq(Frame) /\ Len(chan) \in Nat
      BY DEF DTypeOK
  <2>2. CASE SinkRecv
      BY <2>1, <2>2 DEF SinkRecv
  <2>3. CASE SinkWrite
      BY <2>1, <2>3 DEF SinkWrite
  <2>4. CASE SinkFail
      BY <2>1, <2>4 DEF SinkFail
  <2> QED BY <2>2, <2>3, <2>4 DEF SinkTask
<1>3. sink' \in BOOLEAN /\ (sink' => sink)
    BY DEF SinkTask, SinkRecv, SinkWrite, SinkFail, DTypeOK
<1>4. DTypeOK'
  <2>1. Len(chan') <= ChanCap
      BY <1>2 DEF DTypeOK
  <2> QED BY <1>1, <1>2, <1>3, <2>1 DEF DTypeOK
<1>5. PoolInv' /\ LastFrame'
    BY <1>1, <1>3 DEF PoolInv, ReservedStayUsed, UniqueIds, PoolMatchesSessions, LastFrame,
                      Holds, Announced
<1> QED BY <1>2, <1>4, <1>5

\* The frame a step queues fits the session it belongs to.
FrameFollows ==
    Len(chan') > Len(chan) =>
        LET f == chan'[Len(chan')] IN f.id # 0 => Follows(last[f.id], f.kind)

\* A step that queues nothing.
LEMMA NothingQueued ==
    ASSUME DTypeOK, chan' = chan
    PROVE  FrameFollows
<1>1. Len(chan) \in Nat
    BY DEF DTypeOK
<1> QED BY <1>1 DEF FrameFollows

\* A task that queues the first frame of its session, or a later one.
LEMMA QueuedFollows ==
    ASSUME DTypeOK, LastFrame, NEW c \in Clients, Holds(c),
           NEW kind \in FrameKinds, NEW body, Queued(kind, c, body),
           kind = "connected" <=> ~Announced(c)
    PROVE  FrameFollows
<1> DEFINE f == [kind |-> kind, id |-> id[c], body |-> body]
<1>1. chan' = Append(chan, f) /\ chan \in Seq(Frame) /\ sink
    BY DEF DTypeOK, Queued
<1>2. f.id = id[c] /\ f.kind = kind
    OBVIOUS
<1> HIDE DEF f
<1>3. chan'[Len(chan')] = f
    BY <1>1
<1>4. id[c] # 0 => Follows(last[id[c]], kind)
    BY <1>1 DEF LastFrame, Follows, FrameKinds
<1> QED BY <1>2, <1>3, <1>4 DEF FrameFollows

\* Every await of handle_client keeps the invariant and the order of frames.
LEMMA ClientTaskStep ==
    ASSUME DInv, NEW c \in Clients, ClientTask(c)
    PROVE  DInv' /\ FrameFollows
<1> USE DEF DInv
<1>1. CASE Enroll(c)
  <2>1. /\ UNCHANGED <<used, next, payload, chan, inflight, sink, last, sessions>>
        /\ pc[c] = "enroll" /\ ~Holds(c) /\ ~Announced(c)
      BY <1>1 DEF Enroll, pool, queue, Holds, Announced
  <2>2. CASE \E n \in Names :
                /\ name' = [name EXCEPT ![c] = n]
                /\ Goto(c, "alloc")
                /\ UNCHANGED <<socket, id>>
    <3>1. PICK n \in Names :
                /\ name' = [name EXCEPT ![c] = n]
                /\ Goto(c, "alloc")
                /\ UNCHANGED <<peer, unread, written, id>>
        BY <2>2 DEF socket
    <3>2. DTypeOK'
      <4>1. pc' \in [Clients -> PCs] /\ name' \in [Clients -> Seq(Byte)]
          BY <3>1 DEF DTypeOK, Goto, PCs
      <4> QED BY <2>1, <3>1, <4>1 DEF DTypeOK
    <3>3. PoolInv'
        BY <2>1, <3>1, PoolKept DEF pool, HoldingPCs, PCs
    <3>4. LastFrame'
        BY <2>1, <3>1, LastFrameKept DEF HoldingPCs, PCs
    <3> QED BY <2>1, <3>2, <3>3, <3>4, NothingQueued
  <2>3. CASE Return(c)
    <3>1. DTypeOK'
        BY <2>1, <2>3, ReturnType DEF DTypeOK
    <3>2. \A d \in Clients : /\ Holds(d)' <=> Holds(d)
                             /\ Announced(d)' <=> Announced(d)
                             /\ Holds(d) => id'[d] = id[d]
        BY <2>1, <2>3 DEF DTypeOK, Return, Goto, Holds, Announced
    <3>3. PoolInv'
        BY <2>1, <3>2 DEF PoolInv, ReservedStayUsed, UniqueIds, PoolMatchesSessions
    <3>4. LastFrame'
        BY <2>1, <3>2 DEF LastFrame
    <3> QED BY <2>1, <3>1, <3>3, <3>4, NothingQueued
  <2> QED BY <1>1, <2>2, <2>3 DEF Enroll
<1>2. CASE Alloc(c)
  <2>1. /\ UNCHANGED <<peer, unread, written, name, payload, chan, inflight, sink, last, sessions>>
        /\ ~Holds(c) /\ AllocatesId(c) /\ Goto(c, "reply")
      BY <1>2 DEF Alloc, socket, queue, Holds
  <2>2. /\ PoolInv'
        /\ used' \in [Byte -> BOOLEAN] /\ next' \in 1..ByteMax /\ id' \in [Clients -> Byte]
        /\ \A d \in Clients \ {c} : id'[d] = id[d]
        /\ id'[c] # 0 => \A d \in Clients : Holds(d) => id[d] # id'[c]
      BY <2>1, AllocKeepsPool
  <2>3. DTypeOK'
    <3>1. pc' \in [Clients -> PCs]
        BY <2>1 DEF DTypeOK, Goto, PCs
    <3> QED BY <2>1, <2>2, <3>1 DEF DTypeOK
  <2>4. LastFrame'
    <3>1. \A d \in Clients : /\ Holds(d)' <=> (d = c \/ Holds(d))
                             /\ Announced(d)' <=> (d # c /\ Announced(d))
        BY <2>1 DEF DTypeOK, Goto, Holds, Announced
    <3>2. id'[c] \in Byte
        BY <2>2
    <3>3. sink /\ id'[c] # 0 => last[id'[c]] = "disconnected"
        BY <2>2, <3>2 DEF LastFrame
    <3>4. sink => \A d \in Clients :
             Holds(d)' /\ id'[d] # 0 => (last[id'[d]] # "disconnected" <=> Announced(d)')
        BY <2>2, <3>1, <3>3 DEF LastFrame
    <3>5. sink => \A i \in Byte \ {0} :
             (\A d \in Clients : Holds(d)' => id'[d] # i) => last[i] = "disconnected"
      <4> SUFFICES ASSUME sink, NEW i \in Byte \ {0},
                          \A d \in Clients : Holds(d)' => id'[d] # i
                   PROVE  last[i] = "disconnected"
          OBVIOUS
      <4>1. \A d \in Clients : Holds(d) => id[d] # i
          BY <2>1, <2>2, <3>1
      <4> QED BY <4>1 DEF LastFrame
    <3> QED BY <2>1, <3>4, <3>5 DEF LastFrame
  <2> QED BY <2>1, <2>2, <2>3, <2>4, NothingQueued
<1>3. CASE Reply(c)
  <2>1. /\ UNCHANGED <<used, next, peer, unread, written, id, name, payload, chan, inflight,
                       sink, last, sessions>>
        /\ pc[c] = "reply" /\ Holds(c) /\ ~Announced(c)
      BY <1>3 DEF Reply, pool, socket, queue, Holds, Announced
  <2>2. PICK label \in {"connected", "undo"} : Goto(c, label)
      BY <1>3 DEF Reply
  <2>3. DTypeOK'
    <3>1. pc' \in [Clients -> PCs]
        BY <2>2 DEF DTypeOK, Goto, PCs
    <3> QED BY <2>1, <3>1 DEF DTypeOK
  <2>4. PoolInv'
      BY <2>1, <2>2, PoolKept DEF pool, HoldingPCs, PCs
  <2>5. LastFrame'
      BY <2>1, <2>2, LastFrameKept DEF HoldingPCs, PCs
  <2> QED BY <2>1, <2>3, <2>4, <2>5, NothingQueued
<1>4. CASE Undo(c) \/ Free(c)
  <2>1. /\ UNCHANGED <<payload, chan, inflight, sink, last, sessions>>
        /\ Holds(c) /\ ~Announced(c) /\ FreesId(c) /\ Return(c)
      BY <1>4 DEF Undo, Free, queue, Holds, Announced
  <2>2. PoolInv' /\ used' \in [Byte -> BOOLEAN] /\ next' = next
      BY <2>1, FreeKeepsPool
  <2>3. DTypeOK'
      BY <2>1, <2>2, ReturnType DEF DTypeOK
  <2>4. LastFrame'
      BY <2>1, LastFrameAfterReturn
  <2> QED BY <2>1, <2>2, <2>3, <2>4, NothingQueued
<1>5. CASE ReadData(c)
  <2>1. /\ UNCHANGED <<used, next, peer, written, id, name, chan, inflight, sink, last, sessions>>
        /\ pc[c] = "read" /\ Holds(c) /\ Announced(c) /\ Goto(c, "data")
      BY <1>5 DEF ReadData, pool, queue, Holds, Announced
  <2>2. PICK n \in 1..MaxRead :
           /\ n <= Len(unread[c])
           /\ payload' = [payload EXCEPT ![c] = SubSeq(unread[c], 1, n)]
           /\ unread' = [unread EXCEPT ![c] = SubSeq(@, n + 1, Len(@))]
      BY <1>5 DEF ReadData
  <2>3. DTypeOK'
    <3>1. pc' \in [Clients -> PCs]
        BY <2>1 DEF DTypeOK, Goto, PCs
    <3>2. /\ SubSeq(unread[c], 1, n) \in Seq(Byte)
          /\ SubSeq(unread[c], n + 1, Len(unread[c])) \in Seq(Byte)
      <4>1. unread[c] \in Seq(Byte)
          BY DEF DTypeOK
      <4> QED BY <2>2, <4>1
    <3>3. payload' \in [Clients -> Seq(Byte)] /\ unread' \in [Clients -> Seq(Byte)]
        BY <2>2, <3>2 DEF DTypeOK
    <3> QED BY <2>1, <3>1, <3>3 DEF DTypeOK
  <2>4. PoolInv'
      BY <2>1, PoolKept DEF pool, HoldingPCs, PCs
  <2>5. LastFrame'
      BY <2>1, LastFrameKept DEF HoldingPCs, PCs
  <2> QED BY <2>1, <2>3, <2>4, <2>5, NothingQueued
<1>6. CASE ReadEof(c)
  <2>1. /\ UNCHANGED <<used, next, peer, unread, written, id, name, payload, chan, inflight,
                       sink, last, sessions>>
        /\ pc[c] = "read" /\ Holds(c) /\ Announced(c) /\ Goto(c, "disconnected")
      BY <1>6 DEF ReadEof, pool, socket, queue, Holds, Announced
  <2>2. DTypeOK'
    <3>1. pc' \in [Clients -> PCs]
        BY <2>1 DEF DTypeOK, Goto, PCs
    <3> QED BY <2>1, <3>1 DEF DTypeOK
  <2>3. PoolInv'
      BY <2>1, PoolKept DEF pool, HoldingPCs, PCs
  <2>4. LastFrame'
      BY <2>1, LastFrameKept DEF HoldingPCs, PCs
  <2> QED BY <2>1, <2>2, <2>3, <2>4, NothingQueued
<1>7. CASE SendConnected(c) \/ SendData(c) \/ SendDisconnected(c)
  <2>1. UNCHANGED <<used, next, peer, unread, written, id, name, sessions>> /\ Holds(c)
      BY <1>7 DEF SendConnected, SendData, SendDisconnected, pool, socket, Holds
  <2>2. payload' \in [Clients -> Seq(Byte)]
    <3>1. payload' = payload \/ payload' = [payload EXCEPT ![c] = <<>>]
        BY <1>7 DEF SendConnected, SendData, SendDisconnected
    <3>2. payload \in [Clients -> Seq(Byte)] /\ <<>> \in Seq(Byte)
        BY DEF DTypeOK
    <3> QED BY <3>1, <3>2
  <2>3. CASE \E label \in {"read", "disconnected", "free"} : Refused /\ Goto(c, label)
    <3>1. PICK label \in {"read", "disconnected", "free"} : Refused /\ Goto(c, label)
        BY <2>3
    <3>2. UNCHANGED <<chan, inflight, sink, last>> /\ ~sink
        BY <3>1 DEF Refused, queue
    <3>3. DTypeOK'
      <4>1. pc' \in [Clients -> PCs]
          BY <3>1 DEF DTypeOK, Goto, PCs
      <4> QED BY <2>1, <2>2, <3>2, <4>1 DEF DTypeOK
    <3>4. PoolInv'
        BY <2>1, <3>1, PoolKept DEF pool, HoldingPCs, PCs
    <3>5. LastFrame'
        BY <3>2 DEF LastFrame
    <3> QED BY <3>2, <3>3, <3>4, <3>5, NothingQueued
  <2>4. CASE \E kind \in FrameKinds, label \in {"read", "free"}, body \in Seq(Byte) :
                /\ Queued(kind, c, body) /\ Goto(c, label)
                /\ kind = "connected" <=> ~Announced(c)
                /\ kind # "disconnected" <=> label = "read"
    <3>1. PICK kind \in FrameKinds, label \in {"read", "free"}, body \in Seq(Byte) :
                /\ Queued(kind, c, body) /\ Goto(c, label)
                /\ kind = "connected" <=> ~Announced(c)
                /\ kind # "disconnected" <=> label = "read"
        BY <2>4
    <3>2. /\ chan' \in Seq(Frame) /\ Len(chan') <= ChanCap
          /\ last' \in [Byte -> FrameKinds]
          /\ UNCHANGED <<inflight, sink>>
        BY <3>1, QueuedType
    <3>3. DTypeOK'
      <4>1. pc' \in [Clients -> PCs]
          BY <3>1 DEF DTypeOK, Goto, PCs
      <4> QED BY <2>1, <2>2, <3>2, <4>1 DEF DTypeOK
    <3>4. PoolInv'
        BY <2>1, <3>1, PoolKept DEF pool, HoldingPCs, PCs
    <3>5. LastFrame'
        BY <2>1, <3>1, LastFrameQueued DEF PoolInv, HoldingPCs
    <3> QED BY <2>1, <3>1, <3>3, <3>4, <3>5, QueuedFollows
  <2>5. name[c] \in Seq(Byte) /\ payload[c] \in Seq(Byte)
      BY DEF DTypeOK
  <2> QED
      BY <1>7, <2>3, <2>4, <2>5
      DEF SendConnected, SendData, SendDisconnected, Announced, FrameKinds
<1> QED
    BY <1>1, <1>2, <1>3, <1>4, <1>5, <1>6, <1>7 DEF ClientTask

-----------------------------------------------------------------------------
(* The theorems.                                                           *)

\* The daemon starts with the invariant.
LEMMA DInitDInv == DInit => DInv
<1> SUFFICES ASSUME DInit PROVE DInv
    OBVIOUS
<1> USE DEF DInit
<1>1. used \in [Byte -> BOOLEAN]
    OBVIOUS
<1>2. \A c \in Clients : ~Holds(c)
    BY DEF Holds
<1>3. DTypeOK
  <2>1. pc \in [Clients -> PCs] /\ peer \in [Clients -> BOOLEAN] /\ sink \in BOOLEAN
      BY DEF PCs
  <2>2. /\ next \in 1..ByteMax /\ id \in [Clients -> Byte]
        /\ written \in [Clients -> Nat] /\ sessions \in Nat
      BY DEF Byte
  <2>3. /\ name \in [Clients -> Seq(Byte)] /\ unread \in [Clients -> Seq(Byte)]
        /\ payload \in [Clients -> Seq(Byte)]
      OBVIOUS
  <2>4. /\ chan \in Seq(Frame) /\ Len(chan) <= ChanCap
        /\ inflight \in Seq(Frame) /\ Len(inflight) <= 1
      OBVIOUS
  <2>5. last \in [Byte -> FrameKinds]
      BY DEF FrameKinds
  <2> QED BY <1>1, <2>1, <2>2, <2>3, <2>4, <2>5 DEF DTypeOK
<1>4. PoolInv
    BY <1>2, SpecialBytes DEF PoolInv, ReservedStayUsed, UniqueIds, PoolMatchesSessions
<1>5. LastFrame
    BY <1>2 DEF LastFrame
<1> QED BY <1>3, <1>4, <1>5 DEF DInv

\* Every step keeps the invariant and the order of frames.
LEMMA DNextDInv ==
    ASSUME DInv, [DNext]_dvars
    PROVE  DInv' /\ FrameFollows
<1>0. DTypeOK /\ Len(chan) \in Nat
    BY DEF DInv, DTypeOK
<1>1. CASE \E c \in Clients : ClientTask(c)
    BY <1>1, ClientTaskStep
<1>2. CASE \E c \in Clients : ClientEnd(c)
    BY <1>0, <1>2, ClientEndStep, NothingQueued
<1>3. CASE SinkTask
  <2>1. DInv' /\ Len(chan') <= Len(chan)
      BY <1>3, SinkStep
  <2>2. Len(chan') \in Nat
      BY <2>1 DEF DInv, DTypeOK
  <2> QED BY <1>0, <2>1, <2>2 DEF FrameFollows
<1>4. CASE UNCHANGED dvars
  <2>1. DInv'
      BY <1>4 DEF dvars, pool, socket, task, queue, DInv, DTypeOK, PoolInv, ReservedStayUsed,
                  UniqueIds, PoolMatchesSessions, LastFrame, Holds, Announced
  <2>2. chan' = chan
      BY <1>4 DEF dvars, queue
  <2> QED BY <1>0, <2>1, <2>2, NothingQueued
<1> QED BY <1>1, <1>2, <1>3, <1>4 DEF DNext

\* DInv is an invariant of the daemon.
LEMMA DInductive == DSpec => []DInv
<1>1. DInv /\ [DNext]_dvars => DInv'
    BY DNextDInv
<1> QED BY <1>1, DInitDInv, PTL DEF DSpec

\* The state of the daemon is well formed; the channel never holds more frames
\* than its capacity.
THEOREM DaemonTypeCorrect == DSpec => []DTypeOK
<1>1. DInv => DTypeOK
    BY DEF DInv
<1> QED BY <1>1, DInductive, PTL

\* However connections come and go, handle_client never gives one stream ID to
\* two sessions, nor a framing byte to any.
THEOREM IdsUnique == DSpec => []UniqueIds
<1>1. DInv => UniqueIds
    BY DEF DInv, PoolInv
<1> QED BY <1>1, DInductive, PTL

\* No way through handle_client leaks an ID of the pool or returns one in use.
THEOREM PoolExact == DSpec => []PoolMatchesSessions
<1>1. DInv => PoolMatchesSessions
    BY DEF DInv, PoolInv
<1> QED BY <1>1, DInductive, PTL

\* What is queued for one stream ID is a series of complete sessions: the daemon
\* frees an ID only after its DISCONNECTED record has its place in the channel.
THEOREM SessionsInOrder == DSpec => FramesFormSessions
<1>1. ASSUME DInv, [DNext]_dvars
      PROVE  [Len(chan') > Len(chan) =>
                 LET f == chan'[Len(chan')]
                 IN  f.id # 0 => Follows(last[f.id], f.kind)]_dvars
    BY <1>1, DNextDInv DEF FrameFollows
<1> QED BY <1>1, DInductive, PTL DEF DSpec, FramesFormSessions


-----------------------------------------------------------------------------
(* The daemon, the link and the demuxer.                                   *)

MTypeOK ==
    /\ wire \in Seq(Byte)
    /\ link \in Seq(Byte)
    /\ accepted \in [Byte -> Seq(Byte)]

-----------------------------------------------------------------------------
(* What a frame carries.                                                   *)

\* What of stream i is in a frame, and in a queue of frames.
Part(f, i)  == IF f.kind = "data" /\ f.id = i THEN f.body ELSE <<>>
Parts(q, i) == [k \in DOMAIN q |-> Part(q[k], i)]
Flow(q, i)  == FlattenSeq(Parts(q, i))

\* A frame's part of a stream is a sequence of bytes.
LEMMA PartType ==
    ASSUME NEW f \in Frame, NEW i
    PROVE  Part(f, i) \in Seq(Byte)
<1>1. f.body \in Seq(Byte) /\ <<>> \in Seq(Byte)
  BY DEF Frame
<1> QED
  BY <1>1 DEF Part

\* So are the parts of all frames of a queue.
LEMMA PartsType ==
    ASSUME NEW q \in Seq(Frame), NEW i
    PROVE  /\ Parts(q, i) \in Seq(Seq(Byte)) /\ Len(Parts(q, i)) = Len(q)
           /\ \A k \in 1..Len(q) : Parts(q, i)[k] = Part(q[k], i)
<1>1. \A k \in 1..Len(q) : Part(q[k], i) \in Seq(Byte)
  BY ElementOfSeq, PartType
<1>2. DOMAIN q = 1..Len(q) /\ Len(q) \in Nat
  OBVIOUS
<1> QED
  BY <1>1, <1>2 DEF Parts

\* What a queue has of a stream is a sequence of bytes.
LEMMA FlowType ==
    ASSUME NEW q \in Seq(Frame), NEW i
    PROVE  Flow(q, i) \in Seq(Byte)
BY PartsType, FlattenType DEF Flow

\* An empty queue has nothing.
LEMMA FlowEmpty == \A i : Flow(<<>>, i) = <<>>
<1> TAKE i
<1>1. <<>> \in Seq(Frame)
  OBVIOUS
<1>2. Parts(<<>>, i) \in Seq(Seq(Byte)) /\ Len(Parts(<<>>, i)) = Len(<<>>)
  BY <1>1, PartsType, Zenon
<1>3. Parts(<<>>, i) = <<>>
  BY <1>2, EmptySeq
<1> QED
  BY <1>3, FlattenEmpty DEF Flow

\* A frame that is queued comes last.
LEMMA FlowAppend ==
    ASSUME NEW q \in Seq(Frame), NEW f \in Frame, NEW i
    PROVE  Flow(Append(q, f), i) = Flow(q, i) \o Part(f, i)
<1>1. Append(q, f) \in Seq(Frame) /\ Part(f, i) \in Seq(Byte)
  BY PartType
<1>2. Parts(Append(q, f), i) = Append(Parts(q, i), Part(f, i))
  <2>1. Len(Append(q, f)) = Len(q) + 1 /\ Len(q) \in Nat
    OBVIOUS
  <2> DEFINE s == Parts(q, i)
             t == Parts(Append(q, f), i)
  <2>a. s \in Seq(Seq(Byte)) /\ Len(s) = Len(q) /\ \A k \in 1..Len(q) : s[k] = Part(q[k], i)
    BY PartsType, Zenon
  <2>b. /\ t \in Seq(Seq(Byte)) /\ Len(t) = Len(Append(q, f))
        /\ \A k \in 1..Len(Append(q, f)) : t[k] = Part(Append(q, f)[k], i)
    BY <1>1, PartsType, Zenon
  <2> HIDE DEF s, t
  <2>2. \A k \in 1..(Len(q) + 1) : t[k] = Append(s, Part(f, i))[k]
    BY <1>1, <2>1, <2>a, <2>b
  <2>3. /\ Append(s, Part(f, i)) \in Seq(Seq(Byte))
        /\ Len(t) = Len(q) + 1
        /\ Len(Append(s, Part(f, i))) = Len(q) + 1
    <3> DEFINE e == Part(f, i)
    <3>1. e \in Seq(Byte) /\ s \in Seq(Seq(Byte)) /\ Len(s) = Len(q)
      BY <1>1, <2>a
    <3> HIDE DEF e
    <3>2. Append(s, e) \in Seq(Seq(Byte)) /\ Len(Append(s, e)) = Len(s) + 1
      BY <3>1
    <3> QED
      BY <3>1, <3>2, <2>1, <2>b DEF e
  <2> QED
    BY <2>b, <2>2, <2>3, SeqEqual DEF s, t
<1> QED
  BY <1>1, <1>2, PartsType, FlattenAppend DEF Flow

\* The first frame comes first.
LEMMA FlowFirst ==
    ASSUME NEW q \in Seq(Frame), q # <<>>, NEW i
    PROVE  Flow(q, i) = Part(Head(q), i) \o Flow(Tail(q), i)
<1>1. /\ Tail(q) \in Seq(Frame) /\ Head(q) \in Frame /\ Head(q) = q[1]
      /\ Len(Tail(q)) = Len(q) - 1 /\ \A k \in 1..Len(Tail(q)) : Tail(q)[k] = q[k + 1]
      /\ Len(q) \in Nat \ {0}
  OBVIOUS
<1>2. Parts(q, i) \in Seq(Seq(Byte)) /\ Parts(q, i) # <<>>
  BY <1>1, PartsType
<1>3. Head(Parts(q, i)) = Part(Head(q), i)
  BY <1>1, <1>2, PartsType
<1>4. Tail(Parts(q, i)) = Parts(Tail(q), i)
  <2> DEFINE s == Parts(q, i)
             t == Parts(Tail(q), i)
  <2>1. s \in Seq(Seq(Byte)) /\ Len(s) = Len(q) /\ \A k \in 1..Len(q) : s[k] = Part(q[k], i)
    BY PartsType, Zenon
  <2>2. /\ t \in Seq(Seq(Byte)) /\ Len(t) = Len(Tail(q))
        /\ \A k \in 1..Len(Tail(q)) : t[k] = Part(Tail(q)[k], i)
    BY <1>1, PartsType, Zenon
  <2> HIDE DEF s, t
  <2>3. s # <<>>
    BY <1>1, <2>1
  <2>4. /\ Tail(s) \in Seq(Seq(Byte)) /\ Len(Tail(s)) = Len(t)
        /\ \A k \in 1..Len(t) : Tail(s)[k] = t[k]
    BY <1>1, <2>1, <2>2, <2>3
  <2> QED
    BY <2>2, <2>4, SeqEqual DEF s, t
<1> QED
  BY <1>2, <1>3, <1>4, FlattenFirst DEF Flow

-----------------------------------------------------------------------------
(* Frames as bytes.                                                        *)

\* The two digits of the length of a record with a name
LEMMA LengthDigits ==
    ASSUME NEW n \in Nat, n <= 3 * ByteMax + 1
    PROVE  /\ n \div (ByteMax + 1) \in Byte /\ n % (ByteMax + 1) \in Byte
           /\ ((n \div (ByteMax + 1)) * (ByteMax + 1)) + (n % (ByteMax + 1)) = n
<1> DEFINE m == ByteMax + 1
           h == n \div m
           l == n % m
<1>1. m \in Nat /\ m >= 8 /\ ByteMax \in Nat
  BY ProtocolBytes
<1>2. h \in Nat /\ l \in 0..(m - 1) /\ (h * m) + l = n
  <2> HIDE DEF m
  <2>1. h \in Nat
    BY <1>1
  <2>2. l \in 0..(m - 1)
    BY <1>1
  <2>3. n = (m * (n \div m)) + (n % m)
    BY <1>1
  <2>4. h * m = m * h
    BY <1>1, <2>1
  <2> QED
    BY <1>1, <2>1, <2>2, <2>3, <2>4
<1>3. n < 4 * m
  BY <1>1
<1>4. h < 4
  <2>1. ASSUME h >= 4 PROVE FALSE
    <3> HIDE DEF h, l, m
    <3>1. h * m >= 4 * m
      BY <1>1, <1>2, <2>1
    <3> QED
      BY <1>1, <1>2, <1>3, <3>1
  <2> QED
    BY <1>2, <2>1
<1> QED
  BY <1>1, <1>2, <1>4 DEF Byte

-----------------------------------------------------------------------------
(* Where the parser is in the frame on the link.                           *)

\* The frames muxd sends: no frame has a framing byte as its ID, data have a
\* stream, and the length of a record has two digits.
SoundFrame ==
    {f \in Frame : /\ f.id \notin {CONTROL, ESC}
                   /\ f.kind = "data" => f.id # 0
                   /\ f.kind # "data" => Len(f.body) <= 3 * ByteMax}

\* A frame that carries nothing stands for an idle link.
Nothing == [kind |-> "disconnected", id |-> 0, body |-> <<>>]

AtRest == control_state = "IDLE" /\ ~in_escape /\ cur_rx_stream = NoStream

\* Of a data frame f, whose body is what has not been read, w is still to come.
DataPhase(f, w) ==
    /\ control_state = "IDLE"
    /\ \/ /\ in_escape /\ cur_rx_stream = NoStream
          /\ w = <<f.id>> \o (EscapePayload(f.body) \o DataEnd)
       \/ /\ cur_rx_stream \in StreamPtys(f.id)
          /\ \/ ~in_escape /\ w = EscapePayload(f.body) \o DataEnd
             \/ /\ in_escape /\ f.body # <<>> /\ Head(f.body) = ESC
                /\ w = <<ESC>> \o (EscapePayload(Tail(f.body)) \o DataEnd)
             \/ in_escape /\ f.body = <<>> /\ w = <<DEFAULT>>

RecordType(f) == IF f.kind = "connected" THEN STREAM_CONNECTED ELSE STREAM_DISCONNECTED

RecordPayload(f) == <<f.id>> \o f.body

High(f) == (1 + Len(f.body)) \div (ByteMax + 1)
Low(f)  == (1 + Len(f.body)) % (ByteMax + 1)

\* Of a control record f, w is still to come.
RecordPhase(f, w) ==
    /\ cur_rx_stream = NoStream
    /\ \/ /\ control_state = "IDLE" /\ in_escape
          /\ w = <<CONTROL>> \o (<<RecordType(f)>> \o (<<High(f)>> \o (<<Low(f)>> \o RecordPayload(f))))
       \/ /\ control_state = "CMD" /\ ~in_escape
          /\ w = <<RecordType(f)>> \o (<<High(f)>> \o (<<Low(f)>> \o RecordPayload(f)))
       \/ /\ ~in_escape /\ pending_ctrl_type = RecordType(f)
          /\ \/ /\ control_state = "ANNOUNCE_LEN_HI"
                /\ w = <<High(f)>> \o (<<Low(f)>> \o RecordPayload(f))
             \/ /\ control_state = "ANNOUNCE_LEN_LO"
                /\ control_registry_len = High(f) * (ByteMax + 1)
                /\ w = <<Low(f)>> \o RecordPayload(f)
             \/ /\ control_state = "ANNOUNCE_PAYLOAD"
                /\ control_registry_len = 1 + Len(f.body)
                /\ w # <<>> /\ control_registry_json \o w = RecordPayload(f)

Phase(f, w) ==
    \/ AtRest /\ f = Nothing /\ w = <<>>
    \/ AtRest /\ w = Encode(f)
    \/ f.kind = "data" /\ DataPhase(f, w)
    \/ f.kind # "data" /\ RecordPhase(f, w)

\* The fields of a frame muxd sends
LEMMA SoundFields ==
    ASSUME NEW f \in SoundFrame
    PROVE  /\ f \in Frame /\ f.id \in Byte /\ f.body \in Seq(Byte) /\ f.kind \in FrameKinds
           /\ f.kind = "data" => f.id \in ValidStreamId
           /\ f.kind # "data" => High(f) \in Byte /\ Low(f) \in Byte
                                 /\ (High(f) * (ByteMax + 1)) + Low(f) = 1 + Len(f.body)
           /\ RecordType(f) \in {STREAM_CONNECTED, STREAM_DISCONNECTED}
           /\ RecordPayload(f) \in Seq(Byte) /\ Len(RecordPayload(f)) = 1 + Len(f.body)
<1>1. f \in Frame /\ f.id \in Byte /\ f.body \in Seq(Byte) /\ f.kind \in FrameKinds
  BY DEF SoundFrame, Frame
<1>2. f.kind = "data" => f.id \in ValidStreamId
  BY <1>1, ProtocolBytes DEF SoundFrame, DEFAULT
<1>3. ASSUME f.kind # "data"
      PROVE  High(f) \in Byte /\ Low(f) \in Byte /\ (High(f) * (ByteMax + 1)) + Low(f) = 1 + Len(f.body)
  <2>1. Len(f.body) \in Nat /\ Len(f.body) <= 3 * ByteMax /\ ByteMax \in Nat
    BY <1>1, <1>3, ProtocolBytes DEF SoundFrame
  <2>2. 1 + Len(f.body) \in Nat /\ 1 + Len(f.body) <= 3 * ByteMax + 1
    BY <2>1
  <2> QED
    BY <2>2, LengthDigits DEF High, Low
<1>4. RecordType(f) \in {STREAM_CONNECTED, STREAM_DISCONNECTED}
  BY DEF RecordType
<1>5. RecordPayload(f) \in Seq(Byte) /\ Len(RecordPayload(f)) = 1 + Len(f.body)
  <2>1. <<f.id>> \in Seq(Byte) /\ Len(<<f.id>>) = 1
    BY <1>1
  <2> QED
    BY <1>1, <2>1 DEF RecordPayload
<1> QED
  BY <1>1, <1>2, <1>3, <1>4, <1>5

\* A data frame, byte after byte
LEMMA EncodedData ==
    ASSUME NEW f \in SoundFrame, f.kind = "data"
    PROVE  /\ EscapePayload(f.body) \o DataEnd \in Seq(Byte)
           /\ <<f.id>> \o (EscapePayload(f.body) \o DataEnd) \in Seq(Byte)
           /\ Encode(f) = <<ESC>> \o (<<f.id>> \o (EscapePayload(f.body) \o DataEnd))
<1>1. ESC \in Byte /\ DEFAULT \in Byte /\ f.id \in Byte /\ f.body \in Seq(Byte)
  BY SoundFields, ProtocolBytes
<1>2. EscapePayload(f.body) \in Seq(Byte) /\ DataEnd \in Seq(Byte)
  BY <1>1, EscapeIs DEF DataEnd
<1>3. EscapePayload(f.body) \o DataEnd \in Seq(Byte)
  BY <1>2, ByteConcat, Zenon
<1>4. <<ESC, f.id>> \in Seq(Byte)
  BY <1>1
<1>5. Encode(f) = (<<ESC, f.id>> \o EscapePayload(f.body)) \o DataEnd
  BY DEF Encode, EncodeData, DataEnd
<1>6. (<<ESC, f.id>> \o EscapePayload(f.body)) \o DataEnd
        = <<ESC, f.id>> \o (EscapePayload(f.body) \o DataEnd)
  BY <1>2, <1>4, ByteConcat, Zenon
<1>7. <<ESC, f.id>> \o (EscapePayload(f.body) \o DataEnd)
        = <<ESC>> \o (<<f.id>> \o (EscapePayload(f.body) \o DataEnd))
  <2> DEFINE s == EscapePayload(f.body) \o DataEnd
  <2>1. s \in Seq(Byte)
    BY <1>3
  <2> HIDE DEF s
  <2>2. <<ESC, f.id>> \o s = <<ESC>> \o (<<f.id>> \o s)
    BY <1>1, <2>1, TwoInTurn, Zenon
  <2> QED
    BY <2>2 DEF s
<1>8. <<f.id>> \o (EscapePayload(f.body) \o DataEnd) \in Seq(Byte)
  BY <1>1, <1>3, OneInTurn, Zenon
<1> QED
  BY <1>3, <1>5, <1>6, <1>7, <1>8, Zenon

\* A control record, byte after byte
LEMMA EncodedRecord ==
    ASSUME NEW f \in SoundFrame, f.kind # "data"
    PROVE  /\ <<Low(f)>> \o RecordPayload(f) \in Seq(Byte)
           /\ <<High(f)>> \o (<<Low(f)>> \o RecordPayload(f)) \in Seq(Byte)
           /\ <<RecordType(f)>> \o (<<High(f)>> \o (<<Low(f)>> \o RecordPayload(f))) \in Seq(Byte)
           /\ <<CONTROL>> \o (<<RecordType(f)>> \o (<<High(f)>> \o (<<Low(f)>> \o RecordPayload(f))))
                \in Seq(Byte)
           /\ Encode(f) = <<ESC>> \o (<<CONTROL>> \o (<<RecordType(f)>> \o
                             (<<High(f)>> \o (<<Low(f)>> \o RecordPayload(f)))))
<1> DEFINE t == RecordType(f)
           h == High(f)
           l == Low(f)
           p == RecordPayload(f)
<1>1. /\ ESC \in Byte /\ CONTROL \in Byte /\ t \in Byte /\ f.id \in Byte
      /\ f.body \in Seq(Byte) /\ f.kind \in {"connected", "disconnected"}
  BY SoundFields, ProtocolBytes DEF FrameKinds
<1>2. h \in Byte /\ l \in Byte /\ p \in Seq(Byte)
  BY SoundFields
<1>3. p = <<f.id>> \o f.body
  BY DEF RecordPayload
<1>4. Encode(f) = ((<<ESC, CONTROL, t>> \o <<h, l>>) \o <<f.id>>) \o f.body
  <2>1. LenBytes(1 + Len(f.body)) = <<h, l>>
    BY DEF LenBytes, High, Low
  <2>2. Encode(f) = EncodeControl(t, f.id, f.body)
    BY <1>1 DEF Encode, RecordType
  <2> QED
    BY <2>1, <2>2, Zenon DEF EncodeControl
<1> HIDE DEF t, h, l, p
<1>5. /\ <<ESC, CONTROL, t>> \in Seq(Byte) /\ <<h, l>> \in Seq(Byte) /\ <<f.id>> \in Seq(Byte)
  BY <1>1, <1>2
<1>6. Encode(f) = <<ESC, CONTROL, t>> \o (<<h, l>> \o p)
  <2>1. <<ESC, CONTROL, t>> \o <<h, l>> \in Seq(Byte)
    BY <1>5, ByteConcat, Zenon
  <2>2. ((<<ESC, CONTROL, t>> \o <<h, l>>) \o <<f.id>>) \o f.body
          = (<<ESC, CONTROL, t>> \o <<h, l>>) \o (<<f.id>> \o f.body)
    <3> DEFINE x == <<ESC, CONTROL, t>> \o <<h, l>>
               y == <<f.id>>
    <3>1. x \in Seq(Byte) /\ y \in Seq(Byte)
      BY <1>5, <2>1
    <3> HIDE DEF x, y
    <3>2. Regrouped(x, y, f.body)
      BY <1>1, <3>1, Regroup, Zenon
    <3> QED
      BY <3>2, Zenon DEF Regrouped, x, y
  <2>3. (<<ESC, CONTROL, t>> \o <<h, l>>) \o p = <<ESC, CONTROL, t>> \o (<<h, l>> \o p)
    <3> DEFINE x == <<ESC, CONTROL, t>>
               y == <<h, l>>
    <3>1. x \in Seq(Byte) /\ y \in Seq(Byte)
      BY <1>5
    <3> HIDE DEF x, y
    <3>2. (x \o y) \o p = x \o (y \o p)
      <4>1. Regrouped(x, y, p)
        BY <1>2, <3>1, Regroup, Zenon
      <4> QED
        BY <4>1, Zenon DEF Regrouped
    <3> QED
      BY <3>2 DEF x, y
  <2> QED
    BY <1>3, <1>4, <2>2, <2>3, Zenon
<1>7. <<h, l>> \o p = <<h>> \o (<<l>> \o p) /\ <<l>> \o p \in Seq(Byte)
  BY <1>2, OneInTurn, TwoInTurn, Zenon
<1>8. <<h>> \o (<<l>> \o p) \in Seq(Byte)
  BY <1>2, <1>7, OneInTurn, Zenon
<1>9. /\ <<ESC, CONTROL, t>> \o (<<h>> \o (<<l>> \o p))
           = <<ESC>> \o (<<CONTROL>> \o (<<t>> \o (<<h>> \o (<<l>> \o p))))
      /\ <<t>> \o (<<h>> \o (<<l>> \o p)) \in Seq(Byte)
  <2> DEFINE s == <<h>> \o (<<l>> \o p)
  <2>1. s \in Seq(Byte)
    BY <1>8
  <2> HIDE DEF s
  <2>2. <<t>> \o s \in Seq(Byte)
    BY <1>1, <2>1, OneInTurn, Zenon
  <2>3. <<ESC, CONTROL, t>> \o s = <<ESC>> \o (<<CONTROL>> \o (<<t>> \o s))
    <3>1. Threefold(ESC, CONTROL, t, s)
      BY <1>1, <2>1, ThreeInTurn, Zenon
    <3> QED
      BY <3>1, Zenon DEF Threefold
  <2> QED
    BY <2>2, <2>3 DEF s
<1>10. <<CONTROL>> \o (<<t>> \o (<<h>> \o (<<l>> \o p))) \in Seq(Byte)
  BY <1>1, <1>9, OneInTurn, Zenon
<1>11. Encode(f) = <<ESC>> \o (<<CONTROL>> \o (<<t>> \o (<<h>> \o (<<l>> \o p))))
  BY <1>6, <1>7, <1>9, Zenon
<1> QED
  BY <1>7, <1>8, <1>9, <1>10, <1>11, Zenon DEF t, h, l, p

\* Writing a log or a PTY can fail.
OutputFails == Faults \cap {"log", "pty"} # {}

\* The parser reads a byte of a data frame: it moves on in the frame, it gives
\* the next byte to the stream's PTY, or that fails and ends the thread.
LEMMA DataByte ==
    ASSUME IInv, alive, NEW f \in SoundFrame, f.kind = "data", StreamPtys(f.id) # {},
           NEW w, Phase(f, w), w # <<>>, NEW o, FeedVirtiosoByte(Head(w), o)
    PROVE  /\ UNCHANGED table
           /\ \/ out' = o /\ alive' = TRUE /\ Phase(f, Tail(w))'
              \/ out' = o /\ alive' = TRUE /\ f.body = <<>> /\ Phase(Nothing, Tail(w))'
              \/ /\ f.body # <<>>
                 /\ \E p \in StreamPtys(f.id) : out' = Put(o, p, Head(f.body))
                 /\ alive' = TRUE \/ (alive' = FALSE /\ OutputFails)
                 /\ alive' => Phase([f EXCEPT !.body = Tail(@)], Tail(w))'
              \/ out' = o /\ alive' = FALSE /\ OutputFails
<1> DEFINE ch == Head(w)
           r == EscapePayload(f.body) \o DataEnd
           t == EscapePayload(Tail(f.body)) \o DataEnd
           g == [f EXCEPT !.body = Tail(@)]
<1>1. /\ f.id \in ValidStreamId /\ f.body \in Seq(Byte) /\ f.id \in Byte /\ f \in Frame
      /\ ESC \in Byte /\ DEFAULT \in Byte /\ CONTROL \in Byte /\ DEFAULT = 0
  BY SoundFields, ProtocolBytes DEF DEFAULT
<1>2. /\ TableInv /\ alive = TRUE /\ in_escape \in BOOLEAN
  BY BeforeByte DEF IInv
<1>3. r \in Seq(Byte) /\ <<f.id>> \o r \in Seq(Byte)
      /\ Encode(f) = <<ESC>> \o (<<f.id>> \o r)
  BY EncodedData
<1>4. /\ f.body = <<>> => r = <<ESC>> \o <<DEFAULT>>
      /\ f.body # <<>> =>
             /\ Head(f.body) \in Byte /\ Tail(f.body) \in Seq(Byte) /\ t \in Seq(Byte)
             /\ Head(f.body) = ESC => r = <<ESC>> \o (<<ESC>> \o t)
             /\ Head(f.body) # ESC => r = <<Head(f.body)>> \o t
  BY <1>1, DataLeft
<1>5. g.kind = "data" /\ g.id = f.id /\ g.body = Tail(f.body)
  BY <1>1 DEF Frame
<1>6. ASSUME UNCHANGED table PROVE StreamPtys(f.id)' = StreamPtys(f.id)
  BY <1>6, SamePtys
<1>7. cur_rx_stream \in StreamPtys(f.id) => ~(cur_rx_stream < 0)
  <2>1. num_proc \in Nat
    BY <1>2 DEF TableInv, TableType, BuiltinCount
  <2> QED
    BY <2>1 DEF StreamPtys, Registered
<1> HIDE DEF r, t, g
<1>8. CASE AtRest /\ w = Encode(f)
  <2>1. ch = ESC /\ Tail(w) = <<f.id>> \o r
    BY <1>1, <1>3, <1>8, FirstOf
  <2>2. EscapeStart(ch, o)
    BY <1>8, <2>1, FramingBranch DEF AtRest
  <2>3. /\ UNCHANGED <<table, control_state, cur_rx_stream, alive>> /\ out' = o /\ in_escape' = TRUE
    BY <2>2 DEF EscapeStart, control
  <2>4. DataPhase(f, Tail(w))'
    BY <1>8, <2>1, <2>3 DEF DataPhase, AtRest, r
  <2> QED
    BY <1>2, <2>3, <2>4 DEF Phase
<1>9. CASE DataPhase(f, w) /\ in_escape /\ cur_rx_stream = NoStream /\ w = <<f.id>> \o r
  <2>1. ch = f.id /\ Tail(w) = r
    BY <1>1, <1>3, <1>9, FirstOf
  <2>2. EscapeStream(ch, o)
    BY <1>1, <1>9, <2>1, FramingBranch, ProtocolBytes DEF DataPhase
  <2>3. /\ UNCHANGED <<table, control_state, alive>> /\ out' = o /\ in_escape' = FALSE
        /\ \/ \E i \in Registered : IsPtyOf(i, ch) /\ cur_rx_stream' = i
           \/ ~Known(ch)
    BY <2>2 DEF EscapeStream, control
  <2>4. Known(ch)
    BY <2>1 DEF StreamPtys, Known
  <2>5. PICK i \in Registered : tags[i].value = ch /\ cur_rx_stream' = i
    BY <2>3, <2>4 DEF IsPtyOf
  <2>6. i >= BuiltinCount
    <3>1. ~(i < BuiltinCount) /\ num_proc \in Nat
      BY <1>1, <1>2, <2>1, <2>5, ProtocolBytes DEF TableInv, TableShape, TableType, BuiltinCount
    <3> QED
      BY <3>1 DEF Registered, BuiltinCount
  <2>7. cur_rx_stream' \in StreamPtys(f.id)
    BY <2>1, <2>5, <2>6 DEF StreamPtys
  <2>8. DataPhase(f, Tail(w))'
    BY <1>6, <1>9, <2>1, <2>3, <2>7 DEF DataPhase, r
  <2> QED
    BY <1>2, <2>3, <2>8 DEF Phase
<1>10. CASE DataPhase(f, w) /\ cur_rx_stream \in StreamPtys(f.id) /\ ~in_escape /\ w = r
  <2>1. CASE f.body = <<>>
    <3>1. ch = ESC /\ Tail(w) = <<DEFAULT>>
      <4>1. <<DEFAULT>> \in Seq(Byte)
        BY <1>1
      <4> QED
        BY <1>1, <1>4, <1>10, <2>1, <4>1, FirstOf
    <3>2. EscapeStart(ch, o)
      BY <1>10, <3>1, FramingBranch DEF DataPhase
    <3>3. /\ UNCHANGED <<table, control_state, cur_rx_stream, alive>> /\ out' = o /\ in_escape' = TRUE
      BY <3>2 DEF EscapeStart, control
    <3>4. DataPhase(f, Tail(w))'
      BY <1>6, <1>10, <2>1, <3>1, <3>3 DEF DataPhase
    <3> QED
      BY <1>2, <3>3, <3>4 DEF Phase
  <2>2. CASE f.body # <<>> /\ Head(f.body) = ESC
    <3>1. ch = ESC /\ Tail(w) = <<ESC>> \o t
      <4>1. <<ESC>> \o t \in Seq(Byte)
        BY <1>1, <1>4, <2>2, OneInTurn
      <4> QED
        BY <1>1, <1>4, <1>10, <2>2, <4>1, FirstOf
    <3>2. EscapeStart(ch, o)
      BY <1>10, <3>1, FramingBranch DEF DataPhase
    <3>3. /\ UNCHANGED <<table, control_state, cur_rx_stream, alive>> /\ out' = o /\ in_escape' = TRUE
      BY <3>2 DEF EscapeStart, control
    <3>4. DataPhase(f, Tail(w))'
      BY <1>6, <1>10, <2>2, <3>1, <3>3 DEF DataPhase, t
    <3> QED
      BY <1>2, <3>3, <3>4 DEF Phase
  <2>3. CASE f.body # <<>> /\ Head(f.body) # ESC
    <3>1. ch = Head(f.body) /\ Tail(w) = t
      BY <1>4, <1>10, <2>3, FirstOf
    <3>2. Payload(ch, o)
      BY <1>10, <2>3, <3>1, FramingBranch DEF DataPhase
    <3>3. UNCHANGED <<table, control_state, cur_rx_stream, in_escape>> /\ FlushStream(o, cur_rx_stream, ch)
      BY <1>7, <1>10, <3>2 DEF Payload, control, parser
    <3>4. DataPhase(g, Tail(w))'
      BY <1>5, <1>6, <1>10, <3>1, <3>3 DEF DataPhase, t
    <3>5. Phase(g, Tail(w))'
      BY <1>5, <3>4 DEF Phase
    <3> QED
      BY <1>10, <2>3, <3>1, <3>3, <3>5 DEF FlushStream, OutputFails, g
  <2> QED
    BY <2>1, <2>2, <2>3
<1>11. CASE /\ DataPhase(f, w) /\ cur_rx_stream \in StreamPtys(f.id) /\ in_escape
            /\ f.body # <<>> /\ Head(f.body) = ESC /\ w = <<ESC>> \o t
  <2>1. ch = ESC /\ Tail(w) = t
    BY <1>1, <1>4, <1>11, FirstOf
  <2>2. EscapeEscape(ch, o)
    BY <1>11, <2>1, FramingBranch DEF DataPhase
  <2>3. /\ UNCHANGED <<table, control_state, cur_rx_stream>> /\ in_escape' = FALSE
    BY <2>2 DEF EscapeEscape, control
  <2>4. FlushStream(o, cur_rx_stream, ch)
    BY <1>7, <1>11, <2>2 DEF EscapeEscape
  <2>5. DataPhase(g, Tail(w))'
    BY <1>5, <1>6, <1>11, <2>1, <2>3 DEF DataPhase, t
  <2>6. Phase(g, Tail(w))'
    BY <1>5, <2>5 DEF Phase
  <2> QED
    BY <1>11, <2>1, <2>3, <2>4, <2>6 DEF FlushStream, OutputFails, g
<1>12. CASE /\ DataPhase(f, w) /\ cur_rx_stream \in StreamPtys(f.id) /\ in_escape
            /\ f.body = <<>> /\ w = <<DEFAULT>>
  <2>1. ch = DEFAULT /\ Tail(w) = <<>>
    BY <1>12
  <2>2. EscapeDefault(ch, o)
    BY <1>12, <2>1, FramingBranch DEF DataPhase
  <2>3. /\ UNCHANGED <<table, control_state, alive>> /\ in_escape' = FALSE
        /\ cur_rx_stream' = NoStream /\ out' = o
    BY <2>2 DEF EscapeDefault, control
  <2>4. Phase(Nothing, Tail(w))'
    BY <1>12, <2>1, <2>3 DEF Phase, AtRest, DataPhase
  <2> QED
    BY <1>2, <1>12, <2>3, <2>4
<1> QED
  BY <1>8, <1>9, <1>10, <1>11, <1>12 DEF Phase, DataPhase, r, t

\* The host has memory and PTYs for what muxd announces.
Resources == Faults \cap {"alloc", "openpt"} = {}

\* The parser reads a byte of a control record: it moves on in the record, or
\* acts on it when it is complete.
LEMMA RecordByte ==
    ASSUME IInv, alive, Resources, NEW f \in SoundFrame, f.kind # "data",
           NEW w \in Seq(Byte), Phase(f, w), w # <<>>, NEW o, FeedVirtiosoByte(Head(w), o)
    PROVE  /\ out' = o /\ alive' = TRUE
           /\ \/ UNCHANGED table /\ Phase(f, Tail(w))'
              \/ f.kind = "connected" /\ ApplyConnected(f.id, f.body) /\ Phase(Nothing, Tail(w))'
              \/ f.kind = "disconnected" /\ UNCHANGED table /\ Phase(Nothing, Tail(w))'
<1> DEFINE ch == Head(w)
           p == RecordPayload(f)
           s4 == <<Low(f)>> \o p
           s3 == <<High(f)>> \o s4
           s2 == <<RecordType(f)>> \o s3
           s1 == <<CONTROL>> \o s2
<1>1. /\ f.id \in Byte /\ f.body \in Seq(Byte) /\ f.kind \in {"connected", "disconnected"}
      /\ ESC \in Byte /\ CONTROL \in Byte /\ RecordType(f) \in Byte
      /\ RecordType(f) \in {STREAM_CONNECTED, STREAM_DISCONNECTED}
  BY SoundFields, ProtocolBytes DEF FrameKinds
<1>2. /\ High(f) \in Byte /\ Low(f) \in Byte /\ p \in Seq(Byte) /\ Len(p) = 1 + Len(f.body)
      /\ (High(f) * (ByteMax + 1)) + Low(f) = 1 + Len(f.body)
  BY SoundFields
<1>3. /\ s4 \in Seq(Byte) /\ s3 \in Seq(Byte) /\ s2 \in Seq(Byte) /\ s1 \in Seq(Byte)
      /\ Encode(f) = <<ESC>> \o s1
  BY EncodedRecord
<1>4. ControlType /\ alive = TRUE /\ in_escape \in BOOLEAN /\ Len(f.body) \in Nat
  BY <1>1, BeforeByte DEF IInv
<1>5. RecordPhase(f, Tail(w))' => Phase(f, Tail(w))'
  BY DEF Phase
<1> HIDE DEF p, s4, s3, s2, s1
<1>6. CASE AtRest /\ w = Encode(f)
  <2>1. ch = ESC /\ Tail(w) = s1
    BY <1>1, <1>3, <1>6, FirstOf
  <2>2. EscapeStart(ch, o)
    BY <1>6, <2>1, FramingBranch DEF AtRest
  <2>3. /\ UNCHANGED <<table, control_state, cur_rx_stream, alive>> /\ out' = o /\ in_escape' = TRUE
    BY <2>2 DEF EscapeStart, control
  <2>4. RecordPhase(f, Tail(w))'
    BY <1>6, <2>1, <2>3 DEF RecordPhase, AtRest, s1, s2, s3, s4, p
  <2> QED
    BY <1>4, <1>5, <2>3, <2>4
<1>7. CASE cur_rx_stream = NoStream /\ control_state = "IDLE" /\ in_escape /\ w = s1
  <2>1. ch = CONTROL /\ Tail(w) = s2
    BY <1>1, <1>3, <1>7, FirstOf DEF s1
  <2>2. EscapeControl(ch, o)
    BY <1>7, <2>1, FramingBranch
  <2>3. /\ UNCHANGED <<table, cur_rx_stream, alive>> /\ out' = o /\ in_escape' = FALSE
        /\ control_state' = "CMD"
    BY <2>2 DEF EscapeControl
  <2>4. RecordPhase(f, Tail(w))'
    BY <1>7, <2>1, <2>3 DEF RecordPhase, s2, s3, s4, p
  <2> QED
    BY <1>4, <1>5, <2>3, <2>4
<1>8. CASE cur_rx_stream = NoStream /\ control_state = "CMD" /\ ~in_escape /\ w = s2
  <2>1. ch = RecordType(f) /\ Tail(w) = s3
    BY <1>1, <1>3, <1>8, FirstOf DEF s2
  <2>2. ControlCommand(ch, o)
    BY <1>8, RecordBranch
  <2>3. /\ UNCHANGED <<table, cur_rx_stream, in_escape, alive>> /\ out' = o
        /\ control_state' = "ANNOUNCE_LEN_HI" /\ pending_ctrl_type' = RecordType(f)
    BY <1>1, <2>1, <2>2, ProtocolBytes DEF ControlCommand, parser
  <2>4. RecordPhase(f, Tail(w))'
    BY <1>8, <2>1, <2>3 DEF RecordPhase, s3, s4, p
  <2> QED
    BY <1>4, <1>5, <2>3, <2>4
<1>9. CASE /\ cur_rx_stream = NoStream /\ ~in_escape /\ pending_ctrl_type = RecordType(f)
           /\ control_state = "ANNOUNCE_LEN_HI" /\ w = s3
  <2>1. ch = High(f) /\ Tail(w) = s4
    BY <1>2, <1>3, <1>9, FirstOf DEF s3
  <2>2. ControlLenHi(ch, o)
    BY <1>9, RecordBranch
  <2>3. /\ UNCHANGED <<table, cur_rx_stream, in_escape, alive, pending_ctrl_type>> /\ out' = o
        /\ control_state' = "ANNOUNCE_LEN_LO"
        /\ control_registry_len' = High(f) * (ByteMax + 1)
    BY <1>9, <2>1, <2>2 DEF ControlLenHi, parser
  <2>4. RecordPhase(f, Tail(w))'
    BY <1>9, <2>1, <2>3 DEF RecordPhase, s4, p
  <2> QED
    BY <1>4, <1>5, <2>3, <2>4
<1>10. CASE /\ cur_rx_stream = NoStream /\ ~in_escape /\ pending_ctrl_type = RecordType(f)
            /\ control_state = "ANNOUNCE_LEN_LO" /\ w = s4
            /\ control_registry_len = High(f) * (ByteMax + 1)
  <2>1. ch = Low(f) /\ Tail(w) = p
    BY <1>2, <1>10, FirstOf DEF s4
  <2>2. ControlLenLo(ch, o)
    BY <1>10, RecordBranch
  <2>3. control_registry_len' = 1 + Len(f.body)
    BY <1>2, <1>10, <2>1, <2>2 DEF ControlLenLo
  <2>4. control_registry_len' # 0 /\ "alloc" \notin Faults
    BY <1>4, <2>3 DEF Resources
  <2>5. /\ UNCHANGED <<table, cur_rx_stream, in_escape, alive, pending_ctrl_type>> /\ out' = o
        /\ control_state' = "ANNOUNCE_PAYLOAD" /\ control_registry_json' = <<>>
    BY <1>10, <2>2, <2>4 DEF ControlLenLo, parser
  <2>6. <<>> \o p = p /\ p # <<>>
    BY <1>2, <1>4
  <2>7. RecordPhase(f, Tail(w))'
    BY <1>10, <2>1, <2>3, <2>5, <2>6 DEF RecordPhase, p
  <2> QED
    BY <1>4, <1>5, <2>5, <2>7
<1>11. CASE /\ cur_rx_stream = NoStream /\ ~in_escape /\ pending_ctrl_type = RecordType(f)
            /\ control_state = "ANNOUNCE_PAYLOAD" /\ control_registry_len = 1 + Len(f.body)
            /\ control_registry_json \o w = p
  <2> DEFINE j == control_registry_json
             a == Append(j, ch)
  <2>1. j \in Seq(Byte) /\ ch \in Byte /\ Tail(w) \in Seq(Byte) /\ w = <<ch>> \o Tail(w)
    BY <1>4, HeadAndTail DEF ControlType
  <2>2. a \o Tail(w) = p
    <3>1. a = j \o <<ch>>
      BY <2>1, AppendIsConcat, Zenon
    <3> DEFINE c == <<ch>>
               t == Tail(w)
    <3>2. c \in Seq(Byte) /\ t \in Seq(Byte) /\ w = c \o t /\ a = j \o c
      BY <2>1, <3>1
    <3> HIDE DEF c, t, j, a
    <3>3. (j \o c) \o t = j \o (c \o t)
      <4>1. Regrouped(j, c, t)
        BY <2>1, <3>2, Regroup, Zenon
      <4> QED
        BY <4>1, Zenon DEF Regrouped
    <3>4. a \o t = j \o w
      BY <3>2, <3>3, Zenon
    <3> QED
      BY <1>11, <3>4 DEF t, j
  <2>3. a \in Seq(Byte) /\ Len(a) = Len(j) + 1 /\ Len(j) \in Nat /\ Len(Tail(w)) \in Nat
    BY <2>1
  <2>4. Len(a) + Len(Tail(w)) = 1 + Len(f.body)
    <3> HIDE DEF a
    <3>1. Len(a \o Tail(w)) = Len(a) + Len(Tail(w))
      BY <2>1, <2>3, LenOfConcat, Zenon
    <3> QED
      BY <1>2, <2>2, <3>1
  <2>5. CASE ControlPayload(ch, o)
    <3>1. ~(Len(j) + 1 >= control_registry_len)
      BY <2>5 DEF ControlPayload, LastByte
    <3>2. Len(Tail(w)) # 0
      <4> DEFINE lt == Len(Tail(w))
                 la == Len(a)
                 lj == Len(j)
                 n == control_registry_len
      <4>1. /\ lt \in Nat /\ lj \in Nat /\ la = lj + 1 /\ la + lt = n
            /\ ~(lj + 1 >= n)
        BY <1>11, <2>3, <2>4, <3>1, Zenon
      <4> HIDE DEF lt, la, lj, n
      <4>2. lt # 0
        BY <4>1
      <4> QED
        BY <4>2 DEF lt
    <3>3. Tail(w) # <<>>
      BY <2>1, <3>2, EmptySeq
    <3>4. /\ UNCHANGED <<table, cur_rx_stream, in_escape, alive, pending_ctrl_type, control_state,
                         control_registry_len>>
          /\ out' = o /\ control_registry_json' = a
      BY <2>5 DEF ControlPayload, parser
    <3>5. RecordPhase(f, Tail(w))'
      BY <1>11, <2>2, <3>3, <3>4 DEF RecordPhase, p
    <3> QED
      BY <1>4, <1>5, <3>4, <3>5
  <2>6. CASE ControlAnnounce(ch, o)
    <3>1. Len(j) + 1 >= control_registry_len
      BY <2>6 DEF ControlAnnounce, LastByte
    <3>2. Len(Tail(w)) = 0
      <4> DEFINE lt == Len(Tail(w))
                 la == Len(a)
                 lj == Len(j)
                 n == control_registry_len
      <4>1. /\ lt \in Nat /\ lj \in Nat /\ la = lj + 1 /\ la + lt = n
            /\ lj + 1 >= n
        BY <1>11, <2>3, <2>4, <3>1, Zenon
      <4> HIDE DEF lt, la, lj, n
      <4>2. lt = 0
        BY <4>1
      <4> QED
        BY <4>2 DEF lt
    <3>3. Tail(w) = <<>>
      BY <2>1, <3>2, EmptySeq
    <3>4. a = p
      <4> HIDE DEF a
      <4>1. a \o <<>> = a
        BY <2>3
      <4> QED
        BY <2>2, <3>3, <4>1
    <3>5. Head(a) = f.id /\ Tail(a) = f.body
      BY <1>1, <3>4, FirstOf, SMTT(30) DEF p, RecordPayload
    <3> HIDE DEF a
    <3>6. /\ UNCHANGED <<cur_rx_stream, in_escape, alive>> /\ out' = o /\ control_state' = "IDLE"
          /\ \/ pending_ctrl_type = STREAM_CONNECTED /\ ApplyConnected(f.id, f.body)
             \/ pending_ctrl_type # STREAM_CONNECTED /\ UNCHANGED table
      BY <2>6, <3>5 DEF ControlAnnounce, parser, a
    <3>7. Phase(Nothing, Tail(w))'
      BY <1>11, <3>3, <3>6 DEF Phase, AtRest
    <3>8. pending_ctrl_type = STREAM_CONNECTED <=> f.kind = "connected"
      BY <1>11, ProtocolBytes DEF RecordType
    <3> QED
      BY <1>1, <1>4, <3>6, <3>7, <3>8
  <2> QED
    BY <1>11, <2>5, <2>6, RecordBranch
<1> QED
  BY <1>6, <1>7, <1>8, <1>9, <1>10, <1>11 DEF Phase, RecordPhase, s1, s2, s3, s4, p

-----------------------------------------------------------------------------
(* What the PTYs have.                                                     *)

-----------------------------------------------------------------------------
(* Room in the table.                                                      *)

\* The streams have IDs framing can select, and PTYs not in use have nothing.
TableSound ==
    /\ \A p \in Registered : p >= BuiltinCount => tags[p].value \in ValidStreamId
    /\ \A p \in PtyIdx : p >= num_proc => out[p] = <<>>

\* There are fewer stream IDs than PTYs.
LEMMA RoomForEveryId ==
    ASSUME TableInv, TableSound, NEW i \in ValidStreamId, ~Known(i)
    PROVE  ~TableFull(1)
<1> SUFFICES ASSUME TableFull(1) PROVE FALSE
  OBVIOUS
<1>1. /\ num_proc = MaxPty /\ MaxPty = ByteMax + 2 /\ ByteMax \in Nat /\ ByteMax >= 7
      /\ MaxPty \in Nat
  BY CapacityAssumption, MaxPtyAssumption, ProtocolBytes DEF TableInv, TableType, TableFull, BuiltinCount
<1> DEFINE S == 3..(MaxPty - 1)
           N == 1..ByteMax
           T == (N \ {ESC}) \ {i}
           f == [p \in S |-> tags[p].value]
<1>2. IsFiniteSet(S) /\ Cardinality(S) = ByteMax - 1
  BY <1>1, FS_Interval
<1>3. IsFiniteSet(N) /\ Cardinality(N) = ByteMax
  BY <1>1, FS_Interval
<1>4. ESC \in N /\ i \in N \ {ESC}
  BY <1>1 DEF ValidStreamId, ESC
<1>5. IsFiniteSet(N \ {ESC}) /\ Cardinality(N \ {ESC}) = ByteMax - 1
  BY <1>3, <1>4, FS_RemoveElement
<1>6. IsFiniteSet(T) /\ Cardinality(T) = ByteMax - 2
  <2> DEFINE M == N \ {ESC}
  <2>1. IsFiniteSet(M) /\ Cardinality(M) = ByteMax - 1 /\ i \in M
    BY <1>4, <1>5
  <2> HIDE DEF M
  <2>2. IsFiniteSet(M \ {i}) /\ Cardinality(M \ {i}) = ByteMax - 1 - 1
    BY <2>1, FS_RemoveElement
  <2> QED
    BY <1>1, <2>2 DEF M
<1>7. \A p \in S : p \in Registered /\ p >= BuiltinCount
  BY <1>1 DEF Registered, BuiltinCount
<1>8. f \in [S -> T]
  <2>1. ASSUME NEW p \in S PROVE tags[p].value \in T
    BY <1>7, <2>1 DEF TableSound, ValidStreamId, Known
  <2> QED
    BY <2>1
<1>9. PICK x, y \in S : x # y /\ f[x] = f[y]
  <2>1. Cardinality(T) < Cardinality(S)
    BY <1>1, <1>2, <1>6
  <2> HIDE DEF S, T, f
  <2> QED
    BY <1>2, <1>6, <1>8, <2>1, FS_PigeonHole
<1> QED
  BY <1>7, <1>9 DEF TableInv, DistinctStreamIds

\* A CONNECTED record of muxd: its stream has a PTY afterwards, no other stream
\* loses its own, and nothing is written.
LEMMA Introduces ==
    ASSUME Resources, TableInv, TableInv', TableSound, NEW i \in Byte, i \notin {CONTROL, ESC},
           NEW n, ApplyConnected(i, n),
           \A p \in PtyIdx : p # RAW_CCPLEX => out'[p] = out[p]
    PROVE  /\ TableSound'
           /\ i # 0 => StreamPtys(i)' # {}
           /\ \A j : /\ StreamPtys(j) # {} => StreamPtys(j)' # {}
                     /\ Delivered(j)' = Delivered(j)
<1>1. /\ num_proc \in BuiltinCount..MaxPty /\ tags \in [PtyIdx -> Tag] /\ MaxPty \in Nat
  BY MaxPtyAssumption DEF TableInv, TableType
<1>2. CASE Known(i)
  <2>1. UNCHANGED table
    BY <1>2 DEF ApplyConnected
  <2>2. TableSound'
    BY <1>1, <2>1 DEF TableSound, table, Registered, RAW_CCPLEX, PtyIdx, BuiltinCount
  <2>3. ASSUME i # 0 PROVE StreamPtys(i) # {}
    <3>1. PICK p \in Registered : tags[p].value = i
      BY <1>2 DEF Known
    <3>2. ~(p < BuiltinCount)
      BY <2>3, <3>1 DEF TableInv, TableShape
    <3>3. p >= BuiltinCount
      BY <1>1, <3>2 DEF Registered, BuiltinCount
    <3> QED
      BY <3>1, <3>3 DEF StreamPtys
  <2> QED
    BY <2>1, <2>2, <2>3, SamePtys, SameDelivered
<1>3. CASE ~Known(i)
  <2>1. i \in ValidStreamId
    <3>1. 0 \in Registered /\ 0 < BuiltinCount
      BY <1>1 DEF Registered, BuiltinCount
    <3>2. tags[0].value = 0
      BY <3>1 DEF TableInv, TableShape
    <3>3. i # 0
      BY <1>3, <3>1, <3>2 DEF Known
    <3> QED
      BY <3>3, ProtocolBytes DEF DEFAULT
  <2>2. ~TableFull(1)
    BY <1>3, <2>1, RoomForEveryId
  <2> DEFINE p == num_proc
  <2>3. /\ tags' = [tags EXCEPT ![p] = [name |-> n, value |-> i, input |-> FALSE]]
        /\ num_proc' = p + 1
    BY <1>3, <2>2 DEF ApplyConnected, Resources
  <2>4. /\ p \in PtyIdx /\ p >= BuiltinCount /\ p # RAW_CCPLEX /\ p \in Nat
        /\ Registered' = Registered \cup {p} /\ p \notin Registered
    BY <1>1, <2>2, <2>3 DEF TableFull, PtyIdx, BuiltinCount, RAW_CCPLEX, Registered
  <2>5. tags'[p].value = i /\ \A q \in Registered : tags'[q].value = tags[q].value
    <3>1. \A q \in Registered : q \in PtyIdx
      BY <1>1 DEF Registered, PtyIdx
    <3> QED
      BY <1>1, <2>3, <2>4, <3>1
  <2>6. StreamPtys(i)' = StreamPtys(i) \cup {p} /\ \A j : j # i => StreamPtys(j)' = StreamPtys(j)
    <3>1. ASSUME NEW j
          PROVE  StreamPtys(j)' = {q \in Registered \cup {p} : q >= BuiltinCount /\ tags'[q].value = j}
      BY <2>4 DEF StreamPtys
    <3>2. StreamPtys(i)' = StreamPtys(i) \cup {p}
      BY <2>4, <2>5, <3>1 DEF StreamPtys
    <3>3. ASSUME NEW j, j # i PROVE StreamPtys(j)' = StreamPtys(j)
      BY <2>4, <2>5, <3>1, <3>3 DEF StreamPtys
    <3> QED
      BY <3>2, <3>3
  <2>7. TableSound'
    <3>1. ASSUME NEW q \in Registered', q >= BuiltinCount PROVE tags'[q].value \in ValidStreamId
      BY <2>1, <2>4, <2>5, <3>1 DEF TableSound
    <3>2. ASSUME NEW q \in PtyIdx, q >= num_proc' PROVE out'[q] = <<>>
      BY <1>1, <2>3, <2>4, <3>2 DEF TableSound, RAW_CCPLEX, PtyIdx, BuiltinCount
    <3> QED
      BY <3>1, <3>2 DEF TableSound
  <2>8. Delivered(i)' = Delivered(i)
    <3>1. StreamPtys(i) = {}
      BY <1>3 DEF StreamPtys, Known
    <3>2. Delivered(i) = <<>>
      BY <3>1 DEF Delivered
    <3>3. p \in StreamPtys(i)'
      BY <2>6
    <3>4. Delivered(i)' = out'[p]
      BY <3>3, DeliveredIsThen
    <3>5. out'[p] = <<>>
      BY <2>4 DEF TableSound
    <3> QED
      BY <3>2, <3>4, <3>5
  <2>9. ASSUME NEW j, j # i PROVE Delivered(j)' = Delivered(j)
    <3>1. StreamPtys(j)' = StreamPtys(j)
      BY <2>6, <2>9
    <3>2. CASE StreamPtys(j) = {}
      BY <3>1, <3>2 DEF Delivered
    <3>3. ASSUME NEW q \in StreamPtys(j) PROVE Delivered(j)' = Delivered(j)
      <4>1. Delivered(j) = out[q]
        BY <3>3, DeliveredIs
      <4>2. q \in StreamPtys(j)'
        BY <3>1, <3>3
      <4>3. Delivered(j)' = out'[q]
        BY <4>2, DeliveredIsThen
      <4> QED
        BY <3>3, <4>1, <4>3, StreamPtysAre DEF TableInv
    <3> QED
      BY <3>2, <3>3
  <2> QED
    BY <2>6, <2>7, <2>8, <2>9
<1> QED
  BY <1>2, <1>3

-----------------------------------------------------------------------------
(* What the tasks of the daemon do.                                        *)

\* What c wrote that has not been queued.
Kept(c) == payload[c] \o unread[c]

\* What holds of a client on its way through handle_client: it writes once it has
\* an ID that is not 0, all it wrote has been read when its session ends, unless
\* the sink failed, and only a task that is about to queue data has a payload.
ClientsSound ==
    \A c \in Clients :
        /\ Len(name[c]) <= 3 * ByteMax
        /\ unread[c] # <<>> => id[c] # 0
        /\ pc[c] = "data" => id[c] # 0
        /\ pc[c] # "data" => payload[c] = <<>>
        /\ pc[c] \in {"none", "enroll", "alloc", "reply", "undo"} => unread[c] = <<>>
        /\ sink /\ pc[c] \in {"disconnected", "free"} => unread[c] = <<>>

FramesSound == chan \in Seq(SoundFrame) /\ inflight \in Seq(SoundFrame)

\* A step of another client leaves d alone.
Still(d) ==
    /\ pc'[d] = pc[d] /\ id'[d] = id[d] /\ name'[d] = name[d]
    /\ payload'[d] = payload[d] /\ unread'[d] = unread[d]

SameQueue == UNCHANGED <<chan, inflight>>

\* The task goes on with what it has,
Quiet(c) ==
    /\ SameQueue
    /\ Holds(c)' <=> Holds(c)
    /\ Holds(c) => id'[c] = id[c]
    /\ sink => Kept(c)' = Kept(c)
    /\ sink /\ pc'[c] \in {"read", "data"} => pc[c] \in {"read", "data"}

\* it gets an ID nobody has,
Begins(c) ==
    /\ SameQueue
    /\ ~Holds(c) /\ pc'[c] = "reply"
    /\ id'[c] # 0 => \A d \in Clients : Holds(d) => id[d] # id'[c]
    /\ Kept(c)' = <<>>

\* it gives its ID back,
Ends(c) ==
    /\ SameQueue
    /\ Holds(c) /\ pc'[c] = "none"
    /\ sink => Kept(c) = <<>>

\* or it queues a frame.
Sends(c, f) ==
    /\ sink /\ chan' = Append(chan, f) /\ inflight' = inflight
    /\ Holds(c) /\ Holds(c)' /\ id'[c] = id[c] /\ f.id = id[c]
    /\ f.kind = "data" => pc[c] = "data" /\ Kept(c) = f.body \o Kept(c)'
    /\ f.kind # "data" => Kept(c)' = Kept(c)
    /\ pc'[c] \in {"read", "data"} => f.kind = "connected" \/ pc[c] \in {"read", "data"}

\* The state of one client
LEMMA ClientTypes ==
    ASSUME DTypeOK, NEW c \in Clients
    PROVE  /\ pc[c] \in PCs /\ id[c] \in Byte /\ name[c] \in Seq(Byte) /\ unread[c] \in Seq(Byte)
           /\ payload[c] \in Seq(Byte) /\ peer[c] \in BOOLEAN
           /\ Kept(c) \in Seq(Byte)
           /\ payload[c] = <<>> => Kept(c) = unread[c]
<1>1. /\ pc[c] \in PCs /\ id[c] \in Byte /\ name[c] \in Seq(Byte) /\ unread[c] \in Seq(Byte)
      /\ payload[c] \in Seq(Byte) /\ peer[c] \in BOOLEAN
  BY DEF DTypeOK
<1>2. payload[c] \o unread[c] \in Seq(Byte) /\ <<>> \o unread[c] = unread[c]
  BY <1>1
<1> QED
  BY <1>1, <1>2 DEF Kept

\* A frame a task queues is sound.
LEMMA QueuesSound ==
    ASSUME DInv, ClientsSound, NEW c \in Clients, Holds(c),
           NEW kind \in FrameKinds, NEW body \in Seq(Byte),
           kind = "data" => id[c] # 0,
           kind # "data" => body = name[c]
    PROVE  [kind |-> kind, id |-> id[c], body |-> body] \in SoundFrame
<1>1. id[c] \notin {CONTROL, ESC}
  BY DEF DInv, PoolInv, UniqueIds
<1>2. id[c] \in Byte /\ Len(name[c]) <= 3 * ByteMax
  BY ClientTypes DEF DInv, ClientsSound
<1> QED
  BY <1>1, <1>2 DEF SoundFrame, Frame

\* Nothing else happens when a task takes a step, or a client connects or closes.
LEMMA TaskMoves ==
    ASSUME DInv, ClientsSound, NEW c \in Clients, ClientTask(c) \/ Connect(c) \/ Close(c)
    PROVE  /\ \A d \in Clients \ {c} : Still(d)
           /\ sink' = sink /\ ClientsSound'
           /\ Quiet(c) \/ Begins(c) \/ Ends(c) \/ \E f \in SoundFrame : Sends(c, f)
<1>1. DTypeOK /\ PoolInv
  BY DEF DInv
<1>2. /\ pc[c] \in PCs /\ id[c] \in Byte /\ name[c] \in Seq(Byte) /\ unread[c] \in Seq(Byte)
      /\ payload[c] \in Seq(Byte) /\ Kept(c) \in Seq(Byte)
      /\ payload[c] = <<>> => Kept(c) = unread[c]
  BY <1>1, ClientTypes
<1>3. /\ Len(name[c]) <= 3 * ByteMax
      /\ unread[c] # <<>> => id[c] # 0
      /\ pc[c] = "data" => id[c] # 0
      /\ pc[c] # "data" => payload[c] = <<>>
      /\ pc[c] \in {"none", "enroll", "alloc", "reply", "undo"} => unread[c] = <<>>
      /\ sink /\ pc[c] \in {"disconnected", "free"} => unread[c] = <<>>
  BY DEF ClientsSound
\* What has to be shown of c itself
<1> DEFINE Sound ==
              /\ Len(name'[c]) <= 3 * ByteMax
              /\ unread'[c] # <<>> => id'[c] # 0
              /\ pc'[c] = "data" => id'[c] # 0
              /\ pc'[c] # "data" => payload'[c] = <<>>
              /\ pc'[c] \in {"none", "enroll", "alloc", "reply", "undo"} => unread'[c] = <<>>
              /\ sink' /\ pc'[c] \in {"disconnected", "free"} => unread'[c] = <<>>
<1>4. ASSUME Sound, sink' = sink, \A d \in Clients \ {c} : Still(d)
      PROVE  ClientsSound'
  <2> SUFFICES ASSUME NEW d \in Clients
               PROVE  /\ Len(name'[d]) <= 3 * ByteMax
                      /\ unread'[d] # <<>> => id'[d] # 0
                      /\ pc'[d] = "data" => id'[d] # 0
                      /\ pc'[d] # "data" => payload'[d] = <<>>
                      /\ pc'[d] \in {"none", "enroll", "alloc", "reply", "undo"} => unread'[d] = <<>>
                      /\ sink' /\ pc'[d] \in {"disconnected", "free"} => unread'[d] = <<>>
    BY DEF ClientsSound
  <2>1. CASE d = c
    BY <1>4, <2>1
  <2>2. CASE d # c
    <3>1. Still(d)
      BY <1>4, <2>2
    <3> QED
      BY <1>4, <3>1 DEF Still, ClientsSound
  <2> QED
    BY <2>1, <2>2
<1>5. ASSUME NEW label \in PCs, Goto(c, label)
      PROVE  pc'[c] = label /\ \A d \in Clients \ {c} : pc'[d] = pc[d]
  BY <1>1, <1>5 DEF Goto, DTypeOK
<1>6. ASSUME Return(c), UNCHANGED payload, pc[c] # "data"
      PROVE  /\ pc'[c] = "none" /\ unread'[c] = <<>> /\ payload'[c] = <<>> /\ name'[c] = <<>>
             /\ \A d \in Clients \ {c} : Still(d)
             /\ ~Holds(c)' /\ Kept(c)' = <<>> /\ Sound
  <2>1. /\ pc'[c] = "none" /\ unread'[c] = <<>> /\ payload'[c] = <<>> /\ name'[c] = <<>>
        /\ \A d \in Clients \ {c} : Still(d)
    BY <1>1, <1>3, <1>5, <1>6 DEF Return, DTypeOK, Still, PCs
  <2>2. Len(<<>>) = 0 /\ <<>> \o <<>> = <<>> /\ 0 <= 3 * ByteMax
    BY ProtocolBytes
  <2>3. Kept(c)' = <<>>
    BY <2>1, <2>2 DEF Kept
  <2> QED
    BY <2>1, <2>2, <2>3 DEF Holds
<1>7. CASE Connect(c)
  <2>1. /\ pc[c] = "none" /\ Goto(c, "enroll")
        /\ UNCHANGED <<unread, id, name, payload, chan, inflight, sink>>
    BY <1>7 DEF Connect, Goto, queue
  <2>2. pc'[c] = "enroll" /\ \A d \in Clients \ {c} : Still(d)
    BY <1>5, <2>1 DEF Still, PCs
  <2>3. Sound
    BY <1>3, <2>1, <2>2
  <2>4. Quiet(c)
    BY <2>1, <2>2 DEF Quiet, SameQueue, Holds, Kept
  <2> QED
    BY <1>4, <2>1, <2>2, <2>3, <2>4
<1>8. CASE Close(c)
  <2>1. UNCHANGED <<unread, pc, id, name, payload, chan, inflight, sink>>
    BY <1>8 DEF Close, task, queue
  <2>2. Quiet(c) /\ \A d \in Clients \ {c} : Still(d)
    BY <2>1 DEF Quiet, SameQueue, Holds, Kept, Still
  <2>3. Sound
    BY <1>3, <2>1
  <2> QED
    BY <1>4, <2>1, <2>2, <2>3
<1>9. CASE Enroll(c)
  <2>1. pc[c] = "enroll" /\ UNCHANGED <<payload, chan, inflight, sink>>
    BY <1>9 DEF Enroll, queue
  <2>2. CASE Return(c)
    <3>1. Kept(c) = <<>> /\ ~Holds(c)
      BY <1>2, <1>3, <2>1 DEF Holds
    <3>2. Quiet(c)
      BY <1>6, <2>1, <2>2, <3>1 DEF Quiet, SameQueue
    <3> QED
      BY <1>4, <1>6, <2>1, <2>2, <3>2
  <2>3. ASSUME NEW n \in Names, name' = [name EXCEPT ![c] = n], Goto(c, "alloc"), UNCHANGED <<socket, id>>
        PROVE  Quiet(c) /\ Sound /\ \A d \in Clients \ {c} : Still(d)
    <3>1. pc'[c] = "alloc" /\ name'[c] = n /\ UNCHANGED unread /\ \A d \in Clients \ {c} : Still(d)
      BY <1>1, <1>5, <2>1, <2>3 DEF Still, PCs, socket, DTypeOK
    <3>2. Len(n) <= 3 * ByteMax
      BY NameAssumption
    <3>3. Sound
      BY <1>3, <2>1, <2>3, <3>1, <3>2
    <3>4. Quiet(c)
      BY <2>1, <3>1 DEF Quiet, SameQueue, Holds, Kept
    <3> QED
      BY <3>1, <3>3, <3>4
  <2> QED
    BY <1>4, <1>9, <2>1, <2>2, <2>3 DEF Enroll
<1>10. CASE Alloc(c)
  <2>1. /\ pc[c] = "alloc" /\ AllocatesId(c) /\ Goto(c, "reply")
        /\ UNCHANGED <<unread, name, payload, chan, inflight, sink>>
    BY <1>10 DEF Alloc, socket, queue
  <2>2. ~Holds(c)
    BY <2>1 DEF Holds
  <2>3. /\ \A d \in Clients \ {c} : id'[d] = id[d]
        /\ id'[c] # 0 => \A d \in Clients : Holds(d) => id[d] # id'[c]
    BY <1>1, <2>1, <2>2, AllocKeepsPool
  <2>4. pc'[c] = "reply" /\ \A d \in Clients \ {c} : Still(d)
    BY <1>5, <2>1, <2>3 DEF Still, PCs
  <2>5. Kept(c)' = <<>>
    BY <1>2, <1>3, <2>1 DEF Kept
  <2>6. Begins(c)
    BY <2>1, <2>2, <2>3, <2>4, <2>5 DEF Begins, SameQueue
  <2>7. Sound
    BY <1>3, <2>1, <2>4
  <2> QED
    BY <1>4, <2>1, <2>4, <2>6, <2>7
<1>11. CASE Reply(c) \/ ReadEof(c)
  <2>1. /\ UNCHANGED <<unread, id, name, payload, chan, inflight, sink>>
        /\ \/ pc[c] = "reply" /\ (Goto(c, "connected") \/ Goto(c, "undo"))
           \/ pc[c] = "read" /\ unread[c] = <<>> /\ Goto(c, "disconnected")
    BY <1>11 DEF Reply, ReadEof, socket, queue
  <2>2. /\ \/ pc[c] = "reply" /\ pc'[c] \in {"connected", "undo"}
           \/ pc[c] = "read" /\ unread[c] = <<>> /\ pc'[c] = "disconnected"
        /\ \A d \in Clients \ {c} : Still(d)
    BY <1>5, <2>1 DEF Still, PCs
  <2>3. Quiet(c)
    BY <2>1, <2>2 DEF Quiet, SameQueue, Holds, Kept
  <2>4. Sound
    BY <1>3, <2>1, <2>2
  <2> QED
    BY <1>4, <2>1, <2>2, <2>3, <2>4
<1>12. CASE Undo(c) \/ Free(c)
  <2>1. pc[c] \in {"undo", "free"} /\ Return(c) /\ UNCHANGED <<payload, chan, inflight, sink>>
    BY <1>12 DEF Undo, Free, queue
  <2>2. Holds(c) /\ (sink => Kept(c) = <<>>)
    BY <1>2, <1>3, <2>1 DEF Holds
  <2>3. Ends(c)
    BY <1>6, <2>1, <2>2 DEF Ends, SameQueue
  <2> QED
    BY <1>4, <1>6, <2>1, <2>3
<1>13. CASE ReadData(c)
  <2>1. PICK n \in 1..MaxRead :
            /\ n <= Len(unread[c])
            /\ payload' = [payload EXCEPT ![c] = SubSeq(unread[c], 1, n)]
            /\ unread' = [unread EXCEPT ![c] = SubSeq(@, n + 1, Len(@))]
    BY <1>13 DEF ReadData
  <2>2. pc[c] = "read" /\ Goto(c, "data") /\ UNCHANGED <<id, name, chan, inflight, sink>>
    BY <1>13 DEF ReadData, queue
  <2>3. /\ pc'[c] = "data" /\ \A d \in Clients \ {c} : Still(d)
        /\ payload'[c] = SubSeq(unread[c], 1, n)
        /\ unread'[c] = SubSeq(unread[c], n + 1, Len(unread[c]))
    BY <1>1, <1>5, <2>1, <2>2 DEF Still, PCs, DTypeOK
  <2>4. n \in 0..Len(unread[c]) /\ unread[c] # <<>>
    BY <1>2, <2>1, DaemonAssumption
  <2>5. Kept(c)' = Kept(c)
    BY <1>2, <1>3, <2>2, <2>3, <2>4, SplitAt DEF Kept
  <2>6. Quiet(c)
    BY <2>2, <2>3, <2>5 DEF Quiet, SameQueue, Holds
  <2>7. Sound
    BY <1>3, <2>2, <2>3, <2>4
  <2> QED
    BY <1>4, <2>2, <2>3, <2>6, <2>7
<1>14. CASE SendConnected(c) \/ SendDisconnected(c)
  <2>1. PICK kind \in {"connected", "disconnected"}, label \in {"read", "free"} :
            /\ pc[c] = kind /\ (label = "read" <=> kind = "connected")
            /\ Queued(kind, c, name[c]) \/ Refused
            /\ Goto(c, label)
    BY <1>14 DEF SendConnected, SendDisconnected
  <2>2. UNCHANGED <<unread, id, name, payload>>
    BY <1>14 DEF SendConnected, SendDisconnected, socket
  <2>3. pc'[c] = label /\ \A d \in Clients \ {c} : Still(d)
    BY <1>5, <2>1, <2>2 DEF Still, PCs
  <2>4. sink' = sink /\ Holds(c) /\ Holds(c)' /\ Kept(c)' = Kept(c)
    BY <2>1, <2>2, <2>3 DEF Queued, Refused, queue, Holds, Kept
  <2>5. Sound
    BY <1>3, <2>1, <2>2, <2>3, <2>4
  <2>6. CASE Refused
    <3>1. SameQueue /\ ~sink
      BY <2>6 DEF Refused, queue, SameQueue
    <3>2. Quiet(c)
      BY <2>2, <2>4, <3>1 DEF Quiet
    <3> QED
      BY <1>4, <2>3, <2>4, <2>5, <3>2
  <2>7. CASE Queued(kind, c, name[c])
    <3> DEFINE f == [kind |-> kind, id |-> id[c], body |-> name[c]]
    <3>1. f \in SoundFrame
      <4>1. kind \in FrameKinds /\ kind # "data"
        BY DEF FrameKinds
      <4> QED
        BY <1>2, <2>4, <4>1, QueuesSound
    <3>2. Sends(c, f)
      BY <2>1, <2>2, <2>3, <2>4, <2>7 DEF Sends, Queued
    <3> QED
      BY <1>4, <2>3, <2>4, <2>5, <3>1, <3>2
  <2> QED
    BY <2>1, <2>6, <2>7
<1>15. CASE SendData(c)
  <2>1. /\ pc[c] = "data" /\ payload' = [payload EXCEPT ![c] = <<>>] /\ UNCHANGED <<unread, id, name>>
        /\ \/ Queued("data", c, payload[c]) /\ Goto(c, "read")
           \/ Refused /\ Goto(c, "disconnected")
    BY <1>15 DEF SendData, socket
  <2>2. /\ payload'[c] = <<>> /\ sink' = sink
        /\ \/ Queued("data", c, payload[c]) /\ pc'[c] = "read"
           \/ Refused /\ pc'[c] = "disconnected"
        /\ \A d \in Clients \ {c} : Still(d)
    BY <1>1, <1>5, <2>1 DEF Still, PCs, DTypeOK, Queued, Refused, queue
  <2>3. Sound
    BY <1>3, <2>1, <2>2 DEF Refused
  <2>4. Holds(c) /\ Holds(c)'
    BY <2>1, <2>2 DEF Holds
  <2>5. CASE Refused
    <3>1. SameQueue /\ ~sink
      BY <2>5 DEF Refused, queue, SameQueue
    <3>2. Quiet(c)
      BY <2>1, <2>4, <3>1 DEF Quiet
    <3> QED
      BY <1>4, <2>2, <2>3, <3>2
  <2>6. CASE Queued("data", c, payload[c])
    <3> DEFINE f == [kind |-> "data", id |-> id[c], body |-> payload[c]]
    <3>1. f \in SoundFrame
      <4>1. "data" \in FrameKinds
        BY DEF FrameKinds
      <4> QED
        BY <1>2, <1>3, <2>1, <2>4, <4>1, QueuesSound
    <3>2. Kept(c)' = unread[c]
      <4>1. <<>> \o unread[c] = unread[c]
        BY <1>2
      <4> QED
        BY <2>1, <2>2, <4>1 DEF Kept
    <3>3. Sends(c, f)
      BY <2>1, <2>2, <2>4, <2>6, <3>2 DEF Sends, Queued, Kept
    <3> QED
      BY <1>4, <2>2, <2>3, <3>1, <3>3
  <2> QED
    BY <2>2, <2>5, <2>6
<1> QED
  BY <1>7, <1>8, <1>9, <1>10, <1>11, <1>12, <1>13, <1>14, <1>15 DEF ClientTask

-----------------------------------------------------------------------------
(* Nothing is lost on the way to the link.                                 *)

\* The frames that have not been written to the link
Queue == inflight \o chan

\* With base[i] of stream i on the link or past it, what clients wrote on i is
\* that, what is queued, and what the client that has the ID still holds.
Conserved(base) ==
    \A i \in Byte \ {0} :
        /\ \A c \in Clients :
              Holds(c) /\ id[c] = i => accepted[i] = base[i] \o (Flow(Queue, i) \o Kept(c))
        /\ (\A c \in Clients : Holds(c) => id[c] # i) => accepted[i] = base[i] \o Flow(Queue, i)

\* A frame takes base to base2.
Advances(base, base2, f) == \A i \in Byte : base2[i] = base[i] \o Part(f, i)

\* One of the first k - 1 frames of the queue announces stream i.
InFront(q, k, i) == \E j \in 1..(k - 1) : q[j].kind = "connected" /\ q[j].id = i

\* The streams the host does not know are announced before their data.
IntroducedFirst(known) ==
    /\ \A k \in 1..Len(Queue) :
          Queue[k].kind = "data" => Queue[k].id \in known \/ InFront(Queue, k, Queue[k].id)
    /\ \A c \in Clients :
          pc[c] \in {"read", "data"} /\ id[c] # 0 =>
              id[c] \in known \/ InFront(Queue, Len(Queue) + 1, id[c])

\* Sound frames are frames.
LEMMA SoundQueue ==
    ASSUME FramesSound
    PROVE  Queue \in Seq(SoundFrame) /\ Queue \in Seq(Frame)
<1>1. Queue \in Seq(SoundFrame)
  BY DEF FramesSound, Queue
<1>2. SoundFrame \subseteq Frame
  BY DEF SoundFrame
<1>3. \A k \in 1..Len(Queue) : Queue[k] \in Frame
  BY <1>1, <1>2, ElementOfSeq
<1> HIDE DEF Queue
<1> QED
  BY <1>1, <1>3

\* A task that goes on, or queues what it has, loses nothing.
LEMMA ConservedByTask ==
    ASSUME NEW base, Conserved(base), UNCHANGED accepted, NEW c \in Clients,
           \A d \in Clients \ {c} : Still(d),
           DInv, Holds(c)' <=> Holds(c),
           Holds(c) => /\ id'[c] = id[c]
                       /\ \A i \in Byte \ {0} : i # id[c] => Flow(Queue, i)' = Flow(Queue, i)
                       /\ Flow(Queue, id[c])' \o Kept(c)' = Flow(Queue, id[c]) \o Kept(c),
           ~Holds(c) => \A i \in Byte \ {0} : Flow(Queue, i)' = Flow(Queue, i)
    PROVE  Conserved(base)'
<1>1. \A d \in Clients \ {c} : (Holds(d)' <=> Holds(d)) /\ id'[d] = id[d] /\ Kept(d)' = Kept(d)
  BY DEF Still, Holds, Kept
<1>2. SUFFICES ASSUME NEW i \in Byte \ {0}
      PROVE  /\ \A d \in Clients :
                   Holds(d)' /\ id'[d] = i =>
                       accepted[i] = base[i] \o (Flow(Queue, i)' \o Kept(d)')
             /\ (\A d \in Clients : Holds(d)' => id'[d] # i) => accepted[i] = base[i] \o Flow(Queue, i)'
  BY DEF Conserved
<1>3. ASSUME NEW d \in Clients, Holds(d)', id'[d] = i
      PROVE  accepted[i] = base[i] \o (Flow(Queue, i)' \o Kept(d)')
  <2>1. Holds(d) /\ id[d] = i
    BY <1>1, <1>3
  <2>2. accepted[i] = base[i] \o (Flow(Queue, i) \o Kept(d))
    BY <2>1 DEF Conserved
  <2>3. CASE d = c
    BY <2>1, <2>2, <2>3
  <2>4. CASE d # c
    <3>1. Holds(c) => id[c] # i
      BY <1>2, <2>1, <2>4 DEF DInv, PoolInv, UniqueIds
    <3> QED
      BY <1>1, <2>2, <2>4, <3>1
  <2> QED
    BY <2>3, <2>4
<1>4. ASSUME \A d \in Clients : Holds(d)' => id'[d] # i
      PROVE  accepted[i] = base[i] \o Flow(Queue, i)'
  <2>1. \A d \in Clients : Holds(d) => id[d] # i
    BY <1>1, <1>4
  <2>2. accepted[i] = base[i] \o Flow(Queue, i)
    BY <2>1 DEF Conserved
  <2> QED
    BY <2>1, <2>2
<1> QED
  BY <1>3, <1>4

\* A new session has the stream of those before it.
LEMMA ConservedByBegin ==
    ASSUME NEW base, Conserved(base), UNCHANGED accepted, NEW c \in Clients,
           \A d \in Clients \ {c} : Still(d), FramesSound, Begins(c)
    PROVE  Conserved(base)'
<1>1. \A d \in Clients \ {c} : (Holds(d)' <=> Holds(d)) /\ id'[d] = id[d] /\ Kept(d)' = Kept(d)
  BY DEF Still, Holds, Kept
<1>2. /\ ~Holds(c) /\ Kept(c)' = <<>> /\ Queue' = Queue
      /\ id'[c] # 0 => \A d \in Clients : Holds(d) => id[d] # id'[c]
  BY DEF Begins, SameQueue, Queue
<1>3. Holds(c)'
  BY DEF Begins, Holds
<1>4. SUFFICES ASSUME NEW i \in Byte \ {0}
      PROVE  /\ \A d \in Clients :
                   Holds(d)' /\ id'[d] = i =>
                       accepted[i] = base[i] \o (Flow(Queue, i) \o Kept(d)')
             /\ (\A d \in Clients : Holds(d)' => id'[d] # i) => accepted[i] = base[i] \o Flow(Queue, i)
  BY <1>2 DEF Conserved
<1>5. ASSUME NEW d \in Clients, Holds(d)', id'[d] = i
      PROVE  accepted[i] = base[i] \o (Flow(Queue, i) \o Kept(d)')
  <2>1. CASE d = c
    <3>1. accepted[i] = base[i] \o Flow(Queue, i)
      BY <1>2, <1>4, <1>5, <2>1 DEF Conserved
    <3>2. Flow(Queue, i) \o <<>> = Flow(Queue, i)
      BY SoundQueue, FlowType, ConcatEmptySeq
    <3> QED
      BY <1>2, <2>1, <3>1, <3>2
  <2>2. CASE d # c
    BY <1>1, <1>5, <2>2 DEF Conserved
  <2> QED
    BY <2>1, <2>2
<1>6. ASSUME \A d \in Clients : Holds(d)' => id'[d] # i
      PROVE  accepted[i] = base[i] \o Flow(Queue, i)
  <2>1. \A d \in Clients : Holds(d) => id[d] # i
    BY <1>1, <1>2, <1>6
  <2> QED
    BY <2>1 DEF Conserved
<1> QED
  BY <1>5, <1>6

\* A session that is over leaves nothing behind.
LEMMA ConservedByEnd ==
    ASSUME NEW base, Conserved(base), UNCHANGED accepted, NEW c \in Clients,
           \A d \in Clients \ {c} : Still(d), DInv, FramesSound, sink, Ends(c)
    PROVE  Conserved(base)'
<1>1. \A d \in Clients \ {c} : (Holds(d)' <=> Holds(d)) /\ id'[d] = id[d] /\ Kept(d)' = Kept(d)
  BY DEF Still, Holds, Kept
<1>2. Holds(c) /\ Kept(c) = <<>> /\ Queue' = Queue
  BY DEF Ends, SameQueue, Queue
<1>3. ~Holds(c)'
  BY DEF Ends, Holds
<1>4. SUFFICES ASSUME NEW i \in Byte \ {0}
      PROVE  /\ \A d \in Clients :
                   Holds(d)' /\ id'[d] = i =>
                       accepted[i] = base[i] \o (Flow(Queue, i) \o Kept(d)')
             /\ (\A d \in Clients : Holds(d)' => id'[d] # i) => accepted[i] = base[i] \o Flow(Queue, i)
  BY <1>2 DEF Conserved
<1>5. ASSUME NEW d \in Clients, Holds(d)', id'[d] = i
      PROVE  accepted[i] = base[i] \o (Flow(Queue, i) \o Kept(d)')
  BY <1>1, <1>3, <1>5 DEF Conserved
<1>6. ASSUME \A d \in Clients : Holds(d)' => id'[d] # i
      PROVE  accepted[i] = base[i] \o Flow(Queue, i)
  <2>1. CASE id[c] = i
    <3>1. accepted[i] = base[i] \o (Flow(Queue, i) \o <<>>)
      BY <1>2, <2>1 DEF Conserved
    <3>2. Flow(Queue, i) \o <<>> = Flow(Queue, i)
      BY SoundQueue, FlowType, ConcatEmptySeq
    <3> QED
      BY <3>1, <3>2
  <2>2. CASE id[c] # i
    <3>1. \A d \in Clients : Holds(d) => id[d] # i
      BY <1>1, <1>6, <2>2
    <3> QED
      BY <3>1 DEF Conserved
  <2> QED
    BY <2>1, <2>2
<1> QED
  BY <1>5, <1>6

\* s is made of three parts.
InThree(s, a, b, c) == s = a \o (b \o c)

\* Something is added to the third part.
LEMMA ThirdGrows ==
    ASSUME NEW x \in Seq(Byte), NEW y \in Seq(Byte), NEW z \in Seq(Byte), NEW b \in Byte,
           NEW s, InThree(s, x, y, z)
    PROVE  InThree(Append(s, b), x, y, Append(z, b))
<1> DEFINE yz == y \o z
<1>1. yz \in Seq(Byte) /\ y \o Append(z, b) = Append(yz, b)
  OBVIOUS
<1> HIDE DEF yz
<1>2. x \o Append(yz, b) = Append(x \o yz, b)
  BY <1>1
<1> QED
  BY <1>1, <1>2 DEF yz, InThree

\* The beginning of the second part becomes the end of the first.
LEMMA FirstGrows ==
    ASSUME NEW b \in Seq(Byte), NEW p \in Seq(Byte), NEW f \in Seq(Byte), NEW k \in Seq(Byte),
           NEW s, InThree(s, b, p \o f, k)
    PROVE  InThree(s, b \o p, f, k)
<1>1. (p \o f) \o k = p \o (f \o k) /\ f \o k \in Seq(Byte)
  BY ByteConcat
<1> DEFINE fk == f \o k
<1>2. fk \in Seq(Byte) /\ (p \o f) \o k = p \o fk
  BY <1>1
<1> HIDE DEF fk
<1>3. (b \o p) \o fk = b \o (p \o fk)
  <2>1. Regrouped(b, p, fk)
    BY <1>2, Regroup, Zenon
  <2> QED
    BY <2>1, Zenon DEF Regrouped
<1> QED
  BY <1>2, <1>3, Zenon DEF fk, InThree

\* A client writes.
LEMMA ConservedByWrite ==
    ASSUME NEW base \in [Byte -> Seq(Byte)], Conserved(base), DInv, FramesSound, MTypeOK,
           NEW c \in Clients, NEW b \in DataBytes, MWrite(c, b)
    PROVE  Conserved(base)'
<1>1. /\ UNCHANGED <<pc, id, payload, inflight, chan>> /\ Holds(c) /\ id[c] # 0
      /\ unread' = [unread EXCEPT ![c] = Append(@, b)]
      /\ accepted' = [accepted EXCEPT ![id[c]] = Append(@, b)]
  BY DEF MWrite, Write, task, queue, Holds
<1>2. /\ payload[c] \in Seq(Byte) /\ unread[c] \in Seq(Byte) /\ id[c] \in Byte /\ b \in Byte
      /\ Kept(c) \in Seq(Byte)
  BY ClientTypes, DaemonAssumption DEF DInv
<1>3. /\ unread'[c] = Append(unread[c], b) /\ \A d \in Clients \ {c} : unread'[d] = unread[d]
      /\ accepted'[id[c]] = Append(accepted[id[c]], b)
      /\ \A i \in Byte : i # id[c] => accepted'[i] = accepted[i]
  BY <1>1, <1>2 DEF DInv, DTypeOK, MTypeOK
<1>4. /\ \A d \in Clients : (Holds(d)' <=> Holds(d)) /\ id'[d] = id[d]
      /\ \A d \in Clients \ {c} : Kept(d)' = Kept(d)
      /\ Queue' = Queue
  BY <1>1, <1>3 DEF Holds, Kept, Queue
<1>5. Kept(c)' = Append(Kept(c), b)
  <2> DEFINE p == payload[c]
             u == unread[c]
  <2>1. p \in Seq(Byte) /\ u \in Seq(Byte)
    BY <1>2
  <2>2. Kept(c)' = p \o Append(u, b) /\ Kept(c) = p \o u
    BY <1>1, <1>3 DEF Kept
  <2> HIDE DEF p, u
  <2>3. p \o Append(u, b) = Append(p \o u, b)
    BY <1>2, <2>1, SMTT(30)
  <2> QED
    BY <2>2, <2>3
<1> SUFFICES ASSUME NEW i \in Byte \ {0}
    PROVE  /\ \A d \in Clients :
                 Holds(d)' /\ id'[d] = i =>
                     accepted'[i] = base[i] \o (Flow(Queue', i) \o Kept(d)')
           /\ (\A d \in Clients : Holds(d)' => id'[d] # i) => accepted'[i] = base[i] \o Flow(Queue', i)
  BY Zenon DEF Conserved
<1>6. SUFFICES
         /\ \A d \in Clients :
               Holds(d) /\ id[d] = i =>
                   accepted'[i] = base[i] \o (Flow(Queue, i) \o Kept(d)')
         /\ (\A d \in Clients : Holds(d) => id[d] # i) => accepted'[i] = base[i] \o Flow(Queue, i)
  BY <1>4, Zenon
<1>7. ASSUME NEW d \in Clients, Holds(d), id[d] = i
      PROVE  accepted'[i] = base[i] \o (Flow(Queue, i) \o Kept(d)')
  <2>1. accepted[i] = base[i] \o (Flow(Queue, i) \o Kept(d))
    BY <1>7 DEF Conserved
  <2>2. CASE d = c
    <3> DEFINE x == base[i]
               y == Flow(Queue, i)
               z == Kept(c)
    <3>1. x \in Seq(Byte) /\ y \in Seq(Byte) /\ z \in Seq(Byte)
      BY <1>2, SoundQueue, FlowType
    <3>2. InThree(accepted[i], x, y, z) /\ Kept(c)' = Append(z, b)
      BY <1>5, <2>1, <2>2 DEF InThree
    <3>3. accepted'[i] = Append(accepted[i], b)
      BY <1>3, <1>7, <2>2
    <3> HIDE DEF x, y, z
    <3>4. InThree(Append(accepted[i], b), x, y, Append(z, b))
      BY <1>2, <3>1, <3>2, ThirdGrows, Zenon
    <3> QED
      BY <2>2, <3>2, <3>3, <3>4, Zenon DEF x, y, InThree
  <2>3. CASE d # c
    <3>1. id[c] # i
      BY <1>1, <1>6, <1>7, <2>3 DEF DInv, PoolInv, UniqueIds
    <3> QED
      BY <1>3, <1>4, <2>1, <2>3, <3>1
  <2> QED
    BY <2>2, <2>3
<1>8. ASSUME \A d \in Clients : Holds(d) => id[d] # i
      PROVE  accepted'[i] = base[i] \o Flow(Queue, i)
  BY <1>1, <1>3, <1>8 DEF Conserved
<1> QED
  BY <1>7, <1>8

\* A frame goes on the link.
LEMMA ConservedByFrame ==
    ASSUME NEW base \in [Byte -> Seq(Byte)], NEW base2, Conserved(base), DInv, FramesSound,
           UNCHANGED <<accepted, pc, id, payload, unread>>, Queue # <<>>,
           Queue' = Tail(Queue),
           Advances(base, base2, Head(Queue))
    PROVE  Conserved(base2)'
<1>1. \A d \in Clients : (Holds(d)' <=> Holds(d)) /\ id'[d] = id[d] /\ Kept(d)' = Kept(d)
  BY DEF Holds, Kept
<1>2. Queue \in Seq(Frame) /\ Head(Queue) \in Frame /\ Tail(Queue) \in Seq(Frame)
  BY SoundQueue, HeadAndTail
<1> SUFFICES ASSUME NEW i \in Byte \ {0}
    PROVE  /\ \A d \in Clients :
                 Holds(d)' /\ id'[d] = i =>
                     accepted'[i] = base2[i] \o (Flow(Queue', i) \o Kept(d)')
           /\ (\A d \in Clients : Holds(d)' => id'[d] # i) => accepted'[i] = base2[i] \o Flow(Queue', i)
  BY Zenon DEF Conserved
<1>3. SUFFICES
         /\ \A d \in Clients :
               Holds(d) /\ id[d] = i =>
                   accepted[i] = base2[i] \o (Flow(Tail(Queue), i) \o Kept(d))
         /\ (\A d \in Clients : Holds(d) => id[d] # i) =>
               accepted[i] = base2[i] \o Flow(Tail(Queue), i)
  BY <1>1, Zenon
<1> DEFINE b == base[i]
           p == Part(Head(Queue), i)
           f == Flow(Tail(Queue), i)
<1>4. b \in Seq(Byte) /\ p \in Seq(Byte) /\ f \in Seq(Byte)
  BY <1>2, PartType, FlowType
<1>5. Flow(Queue, i) = p \o f /\ base2[i] = b \o p
  BY <1>2, FlowFirst DEF Advances
<1>6. ASSUME NEW d \in Clients, Holds(d), id[d] = i
      PROVE  accepted[i] = base2[i] \o (f \o Kept(d))
  <2> DEFINE k == Kept(d)
  <2>1. InThree(accepted[i], b, p \o f, k)
    BY <1>5, <1>6 DEF Conserved, InThree
  <2>2. k \in Seq(Byte)
    BY ClientTypes DEF DInv
  <2> HIDE DEF b, p, f, k
  <2>3. InThree(accepted[i], b \o p, f, k)
    BY <1>4, <2>1, <2>2, FirstGrows, Zenon
  <2> QED
    BY <1>5, <2>3, Zenon DEF k, InThree
<1>7. ASSUME \A d \in Clients : Holds(d) => id[d] # i
      PROVE  accepted[i] = base2[i] \o f
  <2>1. accepted[i] = b \o (p \o f)
    BY <1>5, <1>7 DEF Conserved
  <2> HIDE DEF b, p, f
  <2>2. (b \o p) \o f = b \o (p \o f)
    <3>1. Regrouped(b, p, f)
      BY <1>4, Regroup, Zenon
    <3> QED
      BY <3>1, Zenon DEF Regrouped
  <2> QED
    BY <1>5, <2>1, <2>2
<1> QED
  BY <1>6, <1>7

-----------------------------------------------------------------------------
(* Streams are announced first.                                            *)

\* What is in front of a place stays there when a frame is queued.
LEMMA FrontStays ==
    ASSUME NEW q \in Seq(Frame), NEW f, NEW k \in 1..(Len(q) + 1), NEW i, InFront(q, k, i)
    PROVE  InFront(Append(q, f), k, i)
<1>1. PICK j \in 1..(k - 1) : q[j].kind = "connected" /\ q[j].id = i
  BY DEF InFront
<1>2. j \in 1..Len(q) /\ Append(q, f)[j] = q[j]
  BY <1>1
<1> QED
  BY <1>1, <1>2 DEF InFront

\* A frame is queued by a task whose stream is announced, or announces it.
LEMMA IntroducedByQueue ==
    ASSUME NEW known, IntroducedFirst(known), FramesSound, DTypeOK, NEW c \in Clients,
           \A d \in Clients \ {c} : Still(d), NEW f \in SoundFrame, Sends(c, f)
    PROVE  IntroducedFirst(known)'
<1> DEFINE q == Queue
           n == Len(Queue)
<1>1. q \in Seq(Frame) /\ n \in Nat /\ f \in Frame
  BY SoundQueue DEF SoundFrame
<1>2. Queue' = Append(q, f)
  <2>1. inflight \in Seq(SoundFrame) /\ chan \in Seq(SoundFrame)
    BY DEF FramesSound
  <2>2. inflight \o Append(chan, f) = Append(inflight \o chan, f)
    BY <2>1
  <2> QED
    BY <2>2 DEF Sends, Queue
<1>3. /\ Len(Append(q, f)) = n + 1 /\ Append(q, f)[n + 1] = f
      /\ \A k \in 1..n : Append(q, f)[k] = q[k]
  BY <1>1
<1>4. /\ \A k \in 1..n : q[k].kind = "data" => q[k].id \in known \/ InFront(q, k, q[k].id)
      /\ \A d \in Clients : pc[d] \in {"read", "data"} /\ id[d] # 0 =>
             id[d] \in known \/ InFront(q, n + 1, id[d])
  BY DEF IntroducedFirst
<1> HIDE DEF q, n
<1>5. \A k \in 1..(n + 1) : \A i : InFront(q, k, i) => InFront(Append(q, f), k, i)
  BY <1>1, FrontStays DEF n, q
<1>6. ASSUME NEW k \in 1..(n + 1), Append(q, f)[k].kind = "data"
      PROVE  Append(q, f)[k].id \in known \/ InFront(Append(q, f), k, Append(q, f)[k].id)
  <2>1. CASE k \in 1..n
    <3>1. Append(q, f)[k] = q[k]
      BY <1>3, <2>1
    <3>2. q[k].id \in known \/ InFront(q, k, q[k].id)
      BY <1>4, <1>6, <2>1, <3>1
    <3> QED
      BY <1>5, <3>1, <3>2
  <2>2. CASE k = n + 1
    <3>1. f.kind = "data" /\ Append(q, f)[k] = f
      BY <1>3, <1>6, <2>2
    <3>2. pc[c] = "data" /\ f.id = id[c]
      BY <3>1 DEF Sends
    <3>3. f.id # 0
      BY <3>1 DEF SoundFrame
    <3>4. f.id \in known \/ InFront(q, n + 1, f.id)
      BY <1>4, <3>2, <3>3
    <3> QED
      BY <1>5, <2>2, <3>1, <3>4
  <2>3. k \in 1..n \/ k = n + 1
    BY <1>1
  <2> QED
    BY <2>1, <2>2, <2>3, Zenon
<1>7. ASSUME NEW d \in Clients, pc'[d] \in {"read", "data"}, id'[d] # 0
      PROVE  id'[d] \in known \/ InFront(Append(q, f), (n + 1) + 1, id'[d])
  <2>1. ASSUME InFront(q, n + 1, id'[d]) PROVE InFront(Append(q, f), (n + 1) + 1, id'[d])
    <3> DEFINE a == Append(q, f)
    <3>1. n + 1 \in 1..(n + 1) /\ \A j \in 1..((n + 1) - 1) : j \in 1..(((n + 1) + 1) - 1)
      BY <1>1
    <3>2. InFront(a, n + 1, id'[d])
      BY <1>5, <2>1, <3>1, Zenon
    <3> HIDE DEF a
    <3>3. InFront(a, (n + 1) + 1, id'[d])
      BY <3>1, <3>2, Zenon DEF InFront
    <3> QED
      BY <3>3 DEF a
  <2>2. CASE pc[d] \in {"read", "data"} /\ id'[d] = id[d]
    BY <1>4, <1>7, <2>1, <2>2
  <2>3. CASE d = c /\ f.kind = "connected"
    <3>1. f.id = id'[d]
      BY <2>3 DEF Sends
    <3> QED
      BY <1>1, <1>3, <2>3, <3>1 DEF InFront
  <2>4. CASE d = c /\ f.kind # "connected"
    <3>1. pc[d] \in {"read", "data"} /\ id'[d] = id[d]
      BY <1>7, <2>4 DEF Sends
    <3> QED
      BY <2>2, <3>1
  <2>5. CASE d # c
    <3>1. pc[d] \in {"read", "data"} /\ id'[d] = id[d]
      BY <1>7, <2>5 DEF Still
    <3> QED
      BY <2>2, <3>1
  <2> QED
    BY <2>3, <2>4, <2>5
<1>8. Queue' = Append(q, f) /\ Len(Queue') = n + 1
  BY <1>2, <1>3
<1> QED
  BY <1>6, <1>7, <1>8, Zenon DEF IntroducedFirst

\* No frame is queued, and no task begins to read.
LEMMA IntroducedByOther ==
    ASSUME NEW known, IntroducedFirst(known), Queue' = Queue,
           \A d \in Clients : pc'[d] \in {"read", "data"} =>
                                  pc[d] \in {"read", "data"} /\ id'[d] = id[d]
    PROVE  IntroducedFirst(known)'
BY DEF IntroducedFirst

\* The first frame goes on the link.
LEMMA IntroducedByFrame ==
    ASSUME NEW known, NEW known2, IntroducedFirst(known), FramesSound,
           UNCHANGED <<pc, id>>, Queue # <<>>, Queue' = Tail(Queue), known \subseteq known2,
           Head(Queue).kind = "connected" /\ Head(Queue).id # 0 => Head(Queue).id \in known2
    PROVE  IntroducedFirst(known2)'
<1> DEFINE q == Queue
           n == Len(Queue)
           t == Tail(Queue)
<1>1. /\ q \in Seq(SoundFrame) /\ n \in Nat \ {0} /\ Len(t) = n - 1
      /\ \A k \in 1..(n - 1) : t[k] = q[k + 1]
      /\ Head(Queue) = q[1]
  BY SoundQueue
<1>2. /\ \A k \in 1..n : q[k].kind = "data" => q[k].id \in known \/ InFront(q, k, q[k].id)
      /\ \A d \in Clients : pc[d] \in {"read", "data"} /\ id[d] # 0 =>
             id[d] \in known \/ InFront(q, n + 1, id[d])
  BY DEF IntroducedFirst
<1>3. \A k \in 1..n : q[k] \in SoundFrame
  BY <1>1, ElementOfSeq
<1> HIDE DEF q, n, t
<1>4. ASSUME NEW k \in 1..n, NEW i, i # 0, i \in known \/ InFront(q, k + 1, i)
      PROVE  i \in known2 \/ InFront(t, k, i)
  <2>1. CASE i \in known
    BY <2>1
  <2>2. ASSUME NEW j \in 1..((k + 1) - 1), q[j].kind = "connected", q[j].id = i
        PROVE  i \in known2 \/ InFront(t, k, i)
    <3>1. CASE j = 1
      BY <1>1, <1>4, <2>2, <3>1
    <3>2. CASE j # 1
      <4>1. j - 1 \in 1..(k - 1) /\ j - 1 \in 1..(n - 1) /\ (j - 1) + 1 = j
        BY <1>1, <3>2
      <4>2. t[j - 1] = q[j]
        BY <1>1, <4>1, Zenon
      <4> QED
        BY <2>2, <4>1, <4>2 DEF InFront
    <3> QED
      BY <3>1, <3>2
  <2> QED
    BY <1>4, <2>1, <2>2 DEF InFront
<1>5. ASSUME NEW k \in 1..(n - 1), t[k].kind = "data"
      PROVE  t[k].id \in known2 \/ InFront(t, k, t[k].id)
  <2>1. t[k] = q[k + 1] /\ k + 1 \in 1..n /\ k \in 1..n
    BY <1>1
  <2>2. q[k + 1].id # 0
    BY <1>3, <1>5, <2>1 DEF SoundFrame
  <2>3. q[k + 1].id \in known \/ InFront(q, k + 1, q[k + 1].id)
    BY <1>2, <1>5, <2>1
  <2> QED
    BY <1>4, <2>1, <2>2, <2>3
<1>6. ASSUME NEW d \in Clients, pc[d] \in {"read", "data"}, id[d] # 0
      PROVE  id[d] \in known2 \/ InFront(t, (n - 1) + 1, id[d])
  <2>1. id[d] \in known \/ InFront(q, n + 1, id[d])
    BY <1>2, <1>6
  <2>2. n \in 1..n /\ (n - 1) + 1 = n
    BY <1>1
  <2> QED
    BY <1>4, <1>6, <2>1, <2>2
<1>7. Queue' = t /\ Len(Queue') = n - 1
  BY <1>1 DEF t
<1> QED
  BY <1>5, <1>6, <1>7, Zenon DEF IntroducedFirst

-----------------------------------------------------------------------------
(* A step of a task.                                                       *)

\* The queue stays, or grows by the frame the task sends.
LEMMA TaskStep ==
    ASSUME DInv, ClientsSound, FramesSound, UNCHANGED accepted,
           NEW c \in Clients, ClientTask(c) \/ Connect(c) \/ Close(c)
    PROVE  /\ ClientsSound' /\ FramesSound' /\ sink' = sink
           /\ \A base, known : sink /\ Conserved(base) /\ IntroducedFirst(known) =>
                  Conserved(base)' /\ IntroducedFirst(known)'
<1>1. /\ \A d \in Clients \ {c} : Still(d)
      /\ sink' = sink /\ ClientsSound'
      /\ Quiet(c) \/ Begins(c) \/ Ends(c) \/ \E f \in SoundFrame : Sends(c, f)
  BY TaskMoves
<1>2. Queue \in Seq(Frame)
  BY SoundQueue
<1>3. ASSUME NEW base, NEW known, sink, Conserved(base), IntroducedFirst(known), SameQueue,
             Quiet(c) \/ Begins(c) \/ Ends(c)
      PROVE  Conserved(base)' /\ IntroducedFirst(known)'
  <2>1. Queue' = Queue /\ \A i : Flow(Queue, i)' = Flow(Queue, i)
    BY <1>3 DEF SameQueue, Queue, Flow, Parts, Part
  <2>2. CASE Quiet(c)
    <3>1. Conserved(base)'
      BY <1>1, <1>3, <2>1, <2>2, ConservedByTask DEF Quiet
    <3>2. IntroducedFirst(known)'
      <4>1. ASSUME NEW d \in Clients, pc'[d] \in {"read", "data"}
            PROVE  pc[d] \in {"read", "data"} /\ id'[d] = id[d]
        <5>1. CASE d = c
          BY <1>3, <2>2, <4>1, <5>1 DEF Quiet, Holds
        <5>2. CASE d # c
          BY <1>1, <4>1, <5>2 DEF Still
        <5> QED
          BY <5>1, <5>2
      <4> QED
        BY <1>3, <2>1, <4>1, IntroducedByOther
    <3> QED
      BY <3>1, <3>2
  <2>3. CASE Begins(c) \/ Ends(c)
    <3>1. Conserved(base)'
      BY <1>1, <1>3, <2>3, ConservedByBegin, ConservedByEnd
    <3>2. ASSUME NEW d \in Clients, pc'[d] \in {"read", "data"}
          PROVE  pc[d] \in {"read", "data"} /\ id'[d] = id[d]
      <4>1. d # c
        BY <2>3, <3>2 DEF Begins, Ends
      <4> QED
        BY <1>1, <3>2, <4>1 DEF Still
    <3> QED
      BY <1>3, <2>1, <3>1, <3>2, IntroducedByOther
  <2> QED
    BY <1>3, <2>2, <2>3
<1>4. ASSUME NEW f \in SoundFrame, Sends(c, f)
      PROVE  /\ FramesSound'
             /\ \A base, known : Conserved(base) /\ IntroducedFirst(known) =>
                    Conserved(base)' /\ IntroducedFirst(known)'
  <2>1. FramesSound'
    BY <1>4 DEF Sends, FramesSound
  <2>2. f \in Frame
    BY DEF SoundFrame
  <2>3. Queue' = Append(Queue, f)
    <3>1. inflight \in Seq(SoundFrame) /\ chan \in Seq(SoundFrame)
      BY DEF FramesSound
    <3>2. inflight \o Append(chan, f) = Append(inflight \o chan, f)
      BY <3>1
    <3> QED
      BY <1>4, <3>2 DEF Sends, Queue
  <2>4. \A i : Flow(Queue, i)' = Flow(Queue, i) \o Part(f, i)
    <3>1. \A i : Flow(Queue, i)' = Flow(Queue', i)
      BY DEF Flow, Parts, Part
    <3> QED
      BY <1>2, <2>2, <2>3, <3>1, FlowAppend, Zenon
  <2>5. \A i : Part(f, i) = <<>> => Flow(Queue, i)' = Flow(Queue, i)
    BY <1>2, <2>4, FlowType, ConcatEmptySeq
  <2>6. /\ Holds(c) /\ Holds(c)' /\ id'[c] = id[c] /\ f.id = id[c]
        /\ f.kind = "data" => Kept(c) = f.body \o Kept(c)'
        /\ f.kind # "data" => Kept(c)' = Kept(c)
    BY <1>4 DEF Sends
  <2>7. \A i : i # id[c] => Flow(Queue, i)' = Flow(Queue, i)
    BY <2>5, <2>6 DEF Part
  <2>8. Flow(Queue, id[c])' \o Kept(c)' = Flow(Queue, id[c]) \o Kept(c)
    <3>1. CASE f.kind = "data"
      <4> DEFINE x == Flow(Queue, id[c])
                 y == f.body
                 z == Kept(c)'
      <4>1. x \in Seq(Byte) /\ y \in Seq(Byte) /\ z \in Seq(Byte)
        <5>1. Kept(c)' \in Seq(Byte)
          <6>1. DInv'
            BY ClientTaskStep, ClientEndStep DEF ClientEnd
          <6>2. payload'[c] \in Seq(Byte) /\ unread'[c] \in Seq(Byte)
            BY <6>1 DEF DInv, DTypeOK
          <6> QED
            BY <6>2 DEF Kept
        <5> QED
          BY <1>2, <2>2, <5>1, FlowType DEF Frame
      <4>2. Flow(Queue, id[c])' = x \o y /\ Kept(c) = y \o z
        BY <2>4, <2>6, <3>1 DEF Part
      <4> HIDE DEF x, y, z
      <4>3. (x \o y) \o z = x \o (y \o z)
        <5>1. Regrouped(x, y, z)
          BY <4>1, Regroup, Zenon
        <5> QED
          BY <5>1, Zenon DEF Regrouped
      <4> QED
        BY <4>2, <4>3 DEF x, z
    <3>2. CASE f.kind # "data"
      BY <2>5, <2>6, <3>2 DEF Part
    <3> QED
      BY <3>1, <3>2
  <2>9. ASSUME NEW base, Conserved(base) PROVE Conserved(base)'
    BY <1>1, <2>6, <2>7, <2>8, <2>9, ConservedByTask
  <2>10. ASSUME NEW known, IntroducedFirst(known) PROVE IntroducedFirst(known)'
    BY <1>1, <1>4, <2>10, IntroducedByQueue DEF DInv
  <2> QED
    BY <2>1, <2>9, <2>10
<1>5. CASE Quiet(c) \/ Begins(c) \/ Ends(c)
  <2>1. SameQueue
    BY <1>5 DEF Quiet, Begins, Ends
  <2>2. FramesSound'
    BY <2>1 DEF FramesSound, SameQueue
  <2> QED
    BY <1>1, <1>3, <1>5, <2>1, <2>2
<1> QED
  BY <1>1, <1>4, <1>5

-----------------------------------------------------------------------------
(* The mirror of the link.                                                 *)

\* A byte of the link is written to streams and to the unframed output only: the
\* mirror is left as it was before the byte was parsed.
LEMMA FedToStreams ==
    ASSUME IInv, alive, NEW ch \in Byte, NEW o \in [PtyIdx -> Seq(Byte)], FeedVirtiosoByte(ch, o)
    PROVE  out'[RAW_CCPLEX] = o[RAW_CCPLEX]
<1>1. CursorIsOpenStream /\ CursorType
  BY BeforeByte DEF IInv
<1>2. ASSUME NEW i, i # RAW_CCPLEX, FlushStream(o, i, ch) PROVE out'[RAW_CCPLEX] = o[RAW_CCPLEX]
  <2>1. out' = o \/ out' = [o EXCEPT ![i] = Append(@, ch)]
    BY <1>2 DEF FlushStream, Put
  <2>2. RAW_CCPLEX \in DOMAIN o
    BY MaxPtyAssumption DEF RAW_CCPLEX, PtyIdx
  <2> QED
    BY <1>2, <2>1, <2>2
<1>3. CASE EscapeEscape(ch, o)
  <2>1. CASE cur_rx_stream >= 0 /\ FlushStream(o, cur_rx_stream, ch)
    <3>1. cur_rx_stream # RAW_CCPLEX
      BY <1>1, <2>1 DEF CursorIsOpenStream, BuiltinCount, RAW_CCPLEX
    <3> QED
      BY <1>2, <2>1, <3>1
  <2>2. CASE out' = o
    BY <2>2
  <2> QED
    BY <1>3, <2>1, <2>2 DEF EscapeEscape
<1>4. CASE Payload(ch, o)
  <2> DEFINE i == IF cur_rx_stream < 0 THEN PHYSICAL_UART_DEFAULT ELSE cur_rx_stream
  <2>1. FlushStream(o, i, ch)
    BY <1>4 DEF Payload
  <2>2. i # RAW_CCPLEX
    <3>1. CASE cur_rx_stream < 0
      BY <3>1 DEF PHYSICAL_UART_DEFAULT, RAW_CCPLEX
    <3>2. CASE ~(cur_rx_stream < 0)
      <4>1. cur_rx_stream >= 0
        BY <1>1, <3>2 DEF CursorType, PtyIdx
      <4> QED
        BY <1>1, <3>2, <4>1 DEF CursorIsOpenStream, BuiltinCount, RAW_CCPLEX
    <3> QED
      BY <3>1, <3>2
  <2> HIDE DEF i
  <2> QED
    BY <1>2, <2>1, <2>2
<1>5. ASSUME ~EscapeEscape(ch, o), ~Payload(ch, o) PROVE out' = o
  BY <1>5 DEF FeedVirtiosoByte, ControlCommand, ControlLenHi, ControlLenLo, ControlPayload,
              ControlRegistry, ControlAnnounce, EscapeStart, EscapeDefault, EscapeControl,
              EscapeStream
<1> QED
  BY <1>3, <1>4, <1>5

\* On a raw link a byte is mirrored and then parsed.
LEMMA RawFeed ==
    ASSUME NEW ch, Feed(ch)
    PROVE  alive /\ MirrorAndFeed(ch)
BY CapacityAssumption, MirrorFirst

\* A sound frame is encoded in bytes, at least one.
LEMMA EncodedIs ==
    ASSUME NEW f \in SoundFrame
    PROVE  Encode(f) \in Seq(Byte) /\ Encode(f) # <<>>
<1>1. ESC \in Byte
  BY ProtocolBytes
<1>2. PICK s \in Seq(Byte) : Encode(f) = <<ESC>> \o s
  BY EncodedData, EncodedRecord
<1> QED
  BY <1>1, <1>2, FirstOf

\* What the link, the daemon and the demuxer are at any time.
SafeInv ==
    /\ IInv /\ DInv /\ MTypeOK
    /\ ClientsSound /\ FramesSound
    /\ RawMirrorIsComplete

\* A step of the daemon, as MuxDaemon sees it
LEMMA DaemonSteps ==
    /\ \A c \in Clients, b \in DataBytes : MWrite(c, b) => DNext /\ UNCHANGED <<vars, wire, link>>
    /\ MDaemon => DNext /\ UNCHANGED <<vars, wire, accepted, link>>
    /\ MSinkWrite => DNext /\ UNCHANGED <<vars, accepted>>
    /\ MSinkFail => DNext /\ UNCHANGED <<vars, accepted>>
    /\ MReceive => UNCHANGED <<dvars, accepted, link>>
<1>1. ASSUME NEW c \in Clients, NEW b \in DataBytes, MWrite(c, b)
      PROVE  DNext /\ UNCHANGED <<vars, wire, link>>
  BY <1>1 DEF MWrite, DNext, ClientEnd
<1>2. MDaemon => DNext /\ UNCHANGED <<vars, wire, accepted, link>>
  BY DEF MDaemon, DNext, ClientEnd, SinkTask
<1>3. /\ MSinkWrite => DNext /\ UNCHANGED <<vars, accepted>>
      /\ MSinkFail => DNext /\ UNCHANGED <<vars, accepted>>
  BY DEF MSinkWrite, MSinkFail, DNext, SinkTask
<1>4. MReceive => UNCHANGED <<dvars, accepted, link>>
  BY DEF MReceive
<1> QED
  BY <1>1, <1>2, <1>3, <1>4

\* A step that leaves the demuxer alone leaves its invariant alone.
LEMMA DemuxerRests ==
    ASSUME IInv, UNCHANGED vars
    PROVE  IInv'
BY NextIInv

\* The sink task takes a frame, writes it, or fails: the frames stay sound.
LEMMA SinkSound ==
    ASSUME DInv, ClientsSound, FramesSound, SinkTask
    PROVE  ClientsSound' /\ FramesSound'
<1>1. UNCHANGED <<name, unread, id, pc, payload>> /\ (sink' => sink)
  BY DEF SinkTask, SinkRecv, SinkWrite, SinkFail, socket, task
<1>2. ClientsSound'
  BY <1>1 DEF ClientsSound
<1>3. chan \in Seq(SoundFrame) /\ inflight \in Seq(SoundFrame) /\ <<>> \in Seq(SoundFrame)
  BY DEF FramesSound
<1>4. CASE SinkRecv
  <2>1. Head(chan) \in SoundFrame /\ Tail(chan) \in Seq(SoundFrame)
    BY <1>3, <1>4, HeadAndTail DEF SinkRecv
  <2>2. <<Head(chan)>> \in Seq(SoundFrame)
    BY <2>1
  <2> QED
    BY <1>2, <1>4, <2>1, <2>2 DEF SinkRecv, FramesSound
<1>5. CASE SinkWrite \/ SinkFail
  BY <1>2, <1>3, <1>5 DEF SinkWrite, SinkFail, FramesSound
<1> QED
  BY <1>4, <1>5 DEF SinkTask

\* A client writes.
LEMMA WriteSound ==
    ASSUME DInv, ClientsSound, FramesSound, NEW c \in Clients, NEW b, Write(c, b)
    PROVE  ClientsSound' /\ FramesSound'
<1>1. /\ UNCHANGED <<name, id, pc, payload, sink, chan, inflight>> /\ id[c] # 0
      /\ pc[c] \in {"connected", "read", "data"}
      /\ unread' = [unread EXCEPT ![c] = Append(@, b)]
  BY DEF Write, task, queue
<1>2. \A d \in Clients \ {c} : unread'[d] = unread[d]
  BY <1>1 DEF DInv, DTypeOK
<1>3. ClientsSound'
  <2> SUFFICES ASSUME NEW d \in Clients
               PROVE  /\ Len(name[d]) <= 3 * ByteMax
                      /\ unread'[d] # <<>> => id[d] # 0
                      /\ pc[d] = "data" => id[d] # 0
                      /\ pc[d] # "data" => payload[d] = <<>>
                      /\ pc[d] \in {"none", "enroll", "alloc", "reply", "undo"} => unread'[d] = <<>>
                      /\ sink /\ pc[d] \in {"disconnected", "free"} => unread'[d] = <<>>
    BY <1>1 DEF ClientsSound
  <2>1. CASE d = c
    BY <1>1, <2>1 DEF ClientsSound
  <2>2. CASE d # c
    BY <1>2, <2>2 DEF ClientsSound
  <2> QED
    BY <2>1, <2>2
<1> QED
  BY <1>1, <1>3 DEF FramesSound

\* The beginning and the rest of a frame
LEMMA CutFrame ==
    ASSUME NEW s \in Seq(Byte), NEW n \in 0..(Len(s) - 1)
    PROVE  n \in 0..Len(s)
OBVIOUS

\* SafeInv is kept by every step.
LEMMA SafeStep ==
    ASSUME SafeInv, [MNext]_mvars
    PROVE  SafeInv'
<1>1. /\ IInv /\ DInv /\ MTypeOK /\ ClientsSound /\ FramesSound /\ RawMirrorIsComplete
  BY DEF SafeInv
<1>2. /\ wire \in Seq(Byte) /\ link \in Seq(Byte) /\ accepted \in [Byte -> Seq(Byte)]
      /\ OutType /\ alive \in BOOLEAN
  BY <1>1, TypeParts DEF MTypeOK, IInv, DemuxInv
<1>3. RAW_CCPLEX \in PtyIdx
  BY MaxPtyAssumption DEF RAW_CCPLEX, PtyIdx
<1>4. out[RAW_CCPLEX] \in Seq(Byte)
  BY <1>2, <1>3 DEF OutType
<1>5. ASSUME [DNext]_dvars PROVE DInv'
  BY <1>1, <1>5, DNextDInv
\* Something is put on the link, which is empty.
<1>6. ASSUME wire = <<>>, UNCHANGED vars, link' = link \o wire', wire' \in Seq(Byte)
      PROVE  link' \in Seq(Byte) /\ RawMirrorIsComplete'
  <2>1. link' \in Seq(Byte)
    BY <1>2, <1>6
  <2>2. ASSUME alive PROVE link' = out[RAW_CCPLEX] \o wire'
    <3>1. link = out[RAW_CCPLEX] \o <<>>
      BY <1>1, <1>6, <2>2 DEF RawMirrorIsComplete
    <3>2. link = out[RAW_CCPLEX]
      BY <1>4, <3>1, ConcatEmptySeq
    <3> QED
      BY <1>6, <3>2
  <2> QED
    BY <1>6, <2>1, <2>2 DEF RawMirrorIsComplete, vars
<1>7. ASSUME NEW c \in Clients, NEW b \in DataBytes, MWrite(c, b) PROVE SafeInv'
  <2>1. DNext /\ UNCHANGED <<vars, wire, link>> /\ Write(c, b)
    BY <1>7, DaemonSteps DEF MWrite
  <2>2. accepted' \in [Byte -> Seq(Byte)]
    <3>1. id[c] \in Byte /\ b \in Byte
      BY <1>1, ClientTypes, DaemonAssumption DEF DInv
    <3>2. Append(accepted[id[c]], b) \in Seq(Byte)
      BY <1>2, <3>1
    <3> QED
      BY <1>2, <1>7, <3>1, <3>2 DEF MWrite
  <2>3. MTypeOK' /\ RawMirrorIsComplete'
    BY <1>1, <2>1, <2>2 DEF MTypeOK, RawMirrorIsComplete, vars
  <2> QED
    BY <1>1, <1>5, <2>1, <2>3, DemuxerRests, WriteSound DEF SafeInv
<1>8. CASE MDaemon
  <2>1. DNext /\ UNCHANGED <<vars, wire, accepted, link>>
    BY <1>8, DaemonSteps
  <2>2. MTypeOK' /\ RawMirrorIsComplete'
    BY <1>1, <2>1 DEF MTypeOK, RawMirrorIsComplete, vars
  <2>3. ClientsSound' /\ FramesSound'
    <3>1. CASE SinkRecv
      BY <1>1, <3>1, SinkSound DEF SinkTask
    <3>2. ASSUME NEW c \in Clients, ClientTask(c) \/ Connect(c) \/ Close(c)
          PROVE  ClientsSound' /\ FramesSound'
      BY <1>1, <2>1, <3>2, TaskStep
    <3> QED
      BY <1>8, <3>1, <3>2 DEF MDaemon
  <2> QED
    BY <1>1, <1>5, <2>1, <2>2, <2>3, DemuxerRests DEF SafeInv
<1>9. CASE MSinkWrite \/ MSinkFail
  <2>1. DNext /\ UNCHANGED <<vars, accepted>> /\ SinkTask /\ wire = <<>> /\ link' = link \o wire'
    BY <1>9, DaemonSteps DEF MSinkWrite, MSinkFail, SinkTask
  <2>2. Encode(Head(inflight)) \in Seq(Byte)
    <3>1. inflight \in Seq(SoundFrame) /\ inflight # <<>>
      BY <1>1, <1>9 DEF FramesSound, MSinkWrite, MSinkFail, SinkWrite, SinkFail
    <3>2. Head(inflight) \in SoundFrame
      BY <3>1, HeadAndTail
    <3> QED
      BY <3>2, EncodedIs
  <2>3. wire' \in Seq(Byte)
    <3>1. CASE MSinkWrite
      BY <2>2, <3>1 DEF MSinkWrite
    <3>2. CASE MSinkFail
      <4>1. PICK n \in 0..(Len(Encode(Head(inflight))) - 1) :
                wire' = SubSeq(Encode(Head(inflight)), 1, n)
        BY <3>2 DEF MSinkFail
      <4> QED
        BY <2>2, <4>1, CutFrame, SplitAt
    <3> QED
      BY <1>9, <3>1, <3>2
  <2>4. MTypeOK' /\ RawMirrorIsComplete'
    BY <1>2, <1>6, <2>1, <2>3 DEF MTypeOK
  <2> QED
    BY <1>1, <1>5, <2>1, <2>4, DemuxerRests, SinkSound DEF SafeInv
<1>10. CASE MReceive
  <2> DEFINE ch == Head(wire)
  <2>1. UNCHANGED <<dvars, accepted, link>> /\ wire # <<>> /\ Feed(ch) /\ wire' = Tail(wire)
    BY <1>10, DaemonSteps DEF MReceive
  <2>2. ch \in Byte /\ Tail(wire) \in Seq(Byte) /\ wire = <<ch>> \o Tail(wire)
    BY <1>2, <2>1, HeadAndTail
  <2>3. IInv' /\ MTypeOK'
    BY <1>1, <1>2, <2>1, <2>2, NextIInv DEF MTypeOK, Next
  <2>4. ClientsSound' /\ FramesSound'
    BY <1>1, <2>1 DEF ClientsSound, FramesSound, dvars, task, socket, queue
  <2>5. ASSUME alive' PROVE link' = out'[RAW_CCPLEX] \o wire'
    <3>1. alive /\ FeedVirtiosoByte(ch, Mirrored(ch))
      BY <2>1, <2>5, RawFeed DEF MirrorAndFeed
    <3>2. /\ Mirrored(ch) \in [PtyIdx -> Seq(Byte)]
          /\ Mirrored(ch)[RAW_CCPLEX] = Append(out[RAW_CCPLEX], ch)
      BY <1>2, <2>2, MirrorElsewhere
    <3>3. out'[RAW_CCPLEX] = Append(out[RAW_CCPLEX], ch)
      BY <1>1, <2>2, <3>1, <3>2, FedToStreams
    <3> DEFINE m == out[RAW_CCPLEX]
               t == Tail(wire)
               x == <<ch>>
    <3>4. m \in Seq(Byte) /\ t \in Seq(Byte) /\ x \in Seq(Byte) /\ wire = x \o t
      BY <1>4, <2>2
    <3>5. link = m \o wire
      BY <1>1, <3>1 DEF RawMirrorIsComplete
    <3>6. out'[RAW_CCPLEX] = m \o x
      BY <2>2, <3>3, <3>4, AppendIsConcat, Zenon
    <3> HIDE DEF m, t, x
    <3>7. (m \o x) \o t = m \o (x \o t)
      <4>1. Regrouped(m, x, t)
        BY <3>4, Regroup, Zenon
      <4> QED
        BY <4>1, Zenon DEF Regrouped
    <3>8. link = out'[RAW_CCPLEX] \o t
      BY <3>4, <3>5, <3>6, <3>7, Zenon
    <3> QED
      BY <2>1, <3>8 DEF t
  <2> QED
    BY <1>5, <2>1, <2>3, <2>4, <2>5 DEF SafeInv, RawMirrorIsComplete
<1>11. CASE UNCHANGED mvars
  <2>1. UNCHANGED <<vars, dvars, wire, accepted, link>>
    BY <1>11 DEF mvars
  <2>2. ClientsSound' /\ FramesSound'
    BY <1>1, <2>1 DEF ClientsSound, FramesSound, dvars, task, socket, queue
  <2>3. MTypeOK' /\ RawMirrorIsComplete'
    BY <1>1, <2>1 DEF MTypeOK, RawMirrorIsComplete, vars
  <2> QED
    BY <1>1, <1>5, <2>1, <2>2, <2>3, DemuxerRests DEF SafeInv
<1> QED
  BY <1>7, <1>8, <1>9, <1>10, <1>11 DEF MNext

\* It holds when the daemon and the demuxer start.
LEMMA MInitSafe == MInit => SafeInv
<1> SUFFICES ASSUME MInit PROVE SafeInv
  OBVIOUS
<1>1. IInv /\ DInv
  BY InitIInv, DInitDInv DEF MInit
<1>2. MTypeOK
  <2>1. <<>> \in Seq(Byte)
    OBVIOUS
  <2> QED
    BY <2>1 DEF MInit, MTypeOK
<1>3. ClientsSound /\ FramesSound
  <2>1. \A c \in Clients : pc[c] = "none" /\ name[c] = <<>> /\ unread[c] = <<>> /\ payload[c] = <<>>
    BY DEF MInit, DInit
  <2>2. Len(<<>>) = 0 /\ 0 <= 3 * ByteMax /\ <<>> \in Seq(SoundFrame)
    BY ProtocolBytes
  <2>3. chan = <<>> /\ inflight = <<>>
    BY DEF MInit, DInit
  <2> QED
    BY <2>1, <2>2, <2>3 DEF ClientsSound, FramesSound
<1>4. RawMirrorIsComplete
  <2>1. out[RAW_CCPLEX] = <<>>
    BY MaxPtyAssumption DEF MInit, Init, InitTty, RAW_CCPLEX, PtyIdx
  <2>2. <<>> \o <<>> = <<>>
    OBVIOUS
  <2> QED
    BY <2>1, <2>2 DEF MInit, RawMirrorIsComplete
<1> QED
  BY <1>1, <1>2, <1>3, <1>4 DEF SafeInv

\* So it always holds.
LEMMA SafeInductive == MSpec => []SafeInv
<1>1. SafeInv /\ [MNext]_mvars => SafeInv'
  BY SafeStep
<1> QED
  BY <1>1, MInitSafe, PTL DEF MSpec

\* While the tty thread runs, raw_ccplex has all that was read from the link, byte
\* for byte, whatever calls fail: feed_nvidia_outer_or_virtioso_raw writes the byte
\* there before it calls feed_virtioso_byte, and nothing else writes to that PTY.
THEOREM MirrorComplete == MSpec => []RawMirrorIsComplete
<1>1. SafeInv => RawMirrorIsComplete
  BY DEF SafeInv
<1> QED
  BY <1>1, SafeInductive, PTL

-----------------------------------------------------------------------------
(* The link between the queue and the PTYs.                                *)

\* What has reached the PTYs, with what the parser still has to read of frame f.
Ahead(f) == [i \in Byte |-> Delivered(i) \o Part(f, i)]

\* The streams the host knows once it has read f.
KnownStreams(f) ==
    {i \in Byte \ {0} : StreamPtys(i) # {} \/ (f.kind = "connected" /\ f.id = i)}

\* The parser is in frame f, and of its bytes lost will not come: the sink failed.
Reading(f, lost) ==
    /\ sink => lost = <<>>
    /\ Phase(f, wire \o lost)
    /\ f.kind = "data" => StreamPtys(f.id) # {}
    /\ \A i \in Byte \ {0} : IsPrefix(Ahead(f)[i], accepted[i])
    /\ sink => Conserved(Ahead(f)) /\ IntroducedFirst(KnownStreams(f))

LinkSound == alive => \E f \in SoundFrame, lost \in Seq(Byte) : Reading(f, lost)

\* What a PTY has is the beginning of what was written on its stream.
PtysBehind == \A i \in Byte \ {0} : IsPrefix(Delivered(i), accepted[i])

LinkInv == TableSound /\ LinkSound /\ PtysBehind

\* Between two frames nothing is left to read.
LEMMA PhaseOver ==
    ASSUME NEW f \in SoundFrame, Phase(f, <<>>)
    PROVE  AtRest /\ f = Nothing
<1>1. /\ f.id \in Byte /\ f.body \in Seq(Byte) /\ ESC \in Byte /\ DEFAULT \in Byte
      /\ CONTROL \in Byte /\ RecordType(f) \in Byte
  BY SoundFields, ProtocolBytes
<1>2. Encode(f) # <<>>
  BY EncodedIs
<1>3. ASSUME NEW b \in Byte, NEW s \in Seq(Byte) PROVE <<b>> \o s # <<>>
  BY <1>3, FirstOf
<1>4. CASE f.kind = "data" /\ DataPhase(f, <<>>)
  <2>1. /\ EscapePayload(f.body) \o DataEnd \in Seq(Byte) /\ <<DEFAULT>> \in Seq(Byte)
        /\ f.body # <<>> => EscapePayload(Tail(f.body)) \o DataEnd \in Seq(Byte)
    <3>1. EscapePayload(f.body) \o DataEnd \in Seq(Byte)
      BY <1>4, EncodedData, Zenon
    <3>2. f.body # <<>> => EscapePayload(Tail(f.body)) \o DataEnd \in Seq(Byte)
      BY <1>1, DataLeft, Zenon
    <3>3. <<DEFAULT>> \in Seq(Byte)
      BY <1>1
    <3> QED
      BY <3>1, <3>2, <3>3, Zenon
  <2>2. <<f.id>> \o (EscapePayload(f.body) \o DataEnd) # <<>>
    BY <1>1, <1>3, <2>1
  <2>3. EscapePayload(f.body) \o DataEnd # <<>>
    <3>1. DataEnd # <<>> /\ DataEnd \in Seq(Byte) /\ Len(DataEnd) = 2
      BY <1>1 DEF DataEnd
    <3>2. EscapePayload(f.body) \in Seq(Byte)
      BY <1>1, EscapeIs
    <3> DEFINE e == EscapePayload(f.body)
               d == DataEnd
    <3>3. e \in Seq(Byte) /\ d \in Seq(Byte) /\ Len(d) = 2
      BY <3>1, <3>2
    <3> HIDE DEF e, d
    <3>5. e \o d # <<>>
      BY <3>3
    <3> QED
      BY <3>5 DEF e, d
  <2>4. f.body # <<>> => <<ESC>> \o (EscapePayload(Tail(f.body)) \o DataEnd) # <<>>
    BY <1>1, <1>3, <2>1
  <2>5. <<DEFAULT>> # <<>>
    OBVIOUS
  <2> QED
    BY <1>4, <2>2, <2>3, <2>4, <2>5, Zenon DEF DataPhase
<1>5. CASE f.kind # "data" /\ RecordPhase(f, <<>>)
  <2> DEFINE s4 == <<Low(f)>> \o RecordPayload(f)
             s3 == <<High(f)>> \o s4
             s2 == <<RecordType(f)>> \o s3
             s1 == <<CONTROL>> \o s2
  <2>1. High(f) \in Byte /\ Low(f) \in Byte /\ RecordPayload(f) \in Seq(Byte)
    BY <1>5, SoundFields
  <2>2. s4 \in Seq(Byte) /\ s3 \in Seq(Byte) /\ s2 \in Seq(Byte)
    BY <1>5, EncodedRecord
  <2>3. s4 # <<>> /\ s3 # <<>>
    BY <1>3, <2>1, <2>2
  <2>4. s2 # <<>> /\ s1 # <<>>
    BY <1>1, <1>3, <2>2
  <2> QED
    BY <1>5, <2>3, <2>4, Zenon DEF RecordPhase
<1> QED
  BY <1>2, <1>4, <1>5 DEF Phase

\* What the demuxer makes of the link does not change while it rests.
LEMMA DemuxerSame ==
    ASSUME UNCHANGED vars
    PROVE  /\ \A i : Delivered(i)' = Delivered(i) /\ StreamPtys(i)' = StreamPtys(i)
           /\ \A f, w : Phase(f, w)' <=> Phase(f, w)
           /\ \A f : Ahead(f)' = Ahead(f) /\ KnownStreams(f)' = KnownStreams(f)
           /\ TableSound' <=> TableSound
<1>1. UNCHANGED <<tags, num_proc, out, in_escape, cur_rx_stream, control_state,
                  control_registry_len, control_registry_json, pending_ctrl_type>>
  BY DEF vars, parser, control, table
<1>2. \A i : StreamPtys(i)' = StreamPtys(i)
  BY <1>1 DEF StreamPtys, Registered
<1>3. \A i : Delivered(i)' = Delivered(i)
  BY <1>1 DEF Delivered, StreamPtys, Registered
<1>4. ASSUME NEW f, NEW w PROVE Phase(f, w)' <=> Phase(f, w)
  <2>1. DataPhase(f, w)' <=> DataPhase(f, w)
    BY <1>1, <1>2 DEF DataPhase
  <2>2. RecordPhase(f, w)' <=> RecordPhase(f, w)
    BY <1>1 DEF RecordPhase
  <2>3. AtRest' <=> AtRest
    BY <1>1 DEF AtRest
  <2> QED
    BY <2>1, <2>2, <2>3 DEF Phase
<1>5. \A f : Ahead(f)' = Ahead(f) /\ KnownStreams(f)' = KnownStreams(f)
  BY <1>2, <1>3 DEF Ahead, KnownStreams
<1>6. TableSound' <=> TableSound
  BY <1>1 DEF TableSound, Registered
<1> QED
  BY <1>2, <1>3, <1>4, <1>5, <1>6

\* The types of what is ahead
LEMMA AheadType ==
    ASSUME IInv, NEW f \in SoundFrame
    PROVE  /\ Ahead(f) \in [Byte -> Seq(Byte)]
           /\ \A i \in Byte : Ahead(f)[i] = Delivered(i) \o Part(f, i)
<1>1. f \in Frame
  BY DEF SoundFrame
<1>2. ASSUME NEW i \in Byte PROVE Delivered(i) \o Part(f, i) \in Seq(Byte)
  BY <1>1, PartType, DeliveredType, ByteConcat
<1> QED
  BY <1>2 DEF Ahead

\* A queue that stays and clients that rest
LEMMA ConservedSame ==
    ASSUME NEW base, Conserved(base), UNCHANGED <<accepted, pc, id, payload, unread>>, Queue' = Queue
    PROVE  Conserved(base)'
<1>1. \A c \in Clients : (Holds(c)' <=> Holds(c)) /\ Kept(c)' = Kept(c)
  BY DEF Holds, Kept
<1>2. \A i : Flow(Queue, i)' = Flow(Queue, i)
  BY DEF Flow, Parts, Part
<1> QED
  BY <1>1, <1>2 DEF Conserved

\* More streams are known.
LEMMA IntroducedMore ==
    ASSUME NEW known, NEW known2, IntroducedFirst(known), known \subseteq known2,
           UNCHANGED <<pc, id>>, Queue' = Queue
    PROVE  IntroducedFirst(known2)'
BY DEF IntroducedFirst

-----------------------------------------------------------------------------
(* Steps of the daemon.                                                    *)

\* A client writes.
LEMMA LinkByWrite ==
    ASSUME SafeInv, LinkInv, NEW c \in Clients, NEW b \in DataBytes, MWrite(c, b)
    PROVE  LinkInv'
<1>1. IInv /\ DInv /\ MTypeOK /\ FramesSound
  BY DEF SafeInv
<1>2. /\ UNCHANGED <<vars, wire>> /\ UNCHANGED <<alive, pc, id, chan, inflight, sink>>
      /\ accepted' = [accepted EXCEPT ![id[c]] = Append(@, b)]
  BY DEF MWrite, Write, task, queue, vars
<1>3. ASSUME NEW i \in Byte \ {0}, NEW s \in Seq(Byte), IsPrefix(s, accepted[i])
      PROVE  IsPrefix(s, accepted'[i])
  <2>1. accepted[i] \in Seq(Byte) /\ (accepted'[i] = accepted[i] \/ accepted'[i] = Append(accepted[i], b))
    BY <1>1, <1>2 DEF MTypeOK
  <2> QED
    BY <1>3, <2>1, PrefixAppend
<1>4. PtysBehind'
  <2>1. \A i \in Byte \ {0} : Delivered(i) \in Seq(Byte) /\ Delivered(i)' = Delivered(i)
    BY <1>1, <1>2, DeliveredType, DemuxerSame
  <2> QED
    BY <1>3, <2>1 DEF LinkInv, PtysBehind
<1>5. ASSUME NEW f \in SoundFrame, NEW lost, Reading(f, lost) PROVE Reading(f, lost)'
  <2>1. \A i \in Byte : Ahead(f)[i] \in Seq(Byte)
    BY <1>1, AheadType
  <2>2. \A i \in Byte \ {0} : IsPrefix(Ahead(f)[i], accepted'[i])
    BY <1>3, <1>5, <2>1 DEF Reading
  <2>3. ASSUME sink PROVE Conserved(Ahead(f))' /\ IntroducedFirst(KnownStreams(f))'
    <3> DEFINE base == Ahead(f)
               known == KnownStreams(f)
    <3>1. base' = base /\ known' = known
      BY <1>2, DemuxerSame
    <3>2. base \in [Byte -> Seq(Byte)] /\ Conserved(base) /\ IntroducedFirst(known)
      BY <1>1, <1>5, <2>3, AheadType DEF Reading
    <3>3. PICK base2, known2 : base2 = base /\ known2 = known
      OBVIOUS
    <3>4. Conserved(base2)'
      BY <1>1, <3>2, <3>3, ConservedByWrite
    <3>5. IntroducedFirst(known2)'
      <4>1. Queue' = Queue
        BY <1>2 DEF Queue
      <4> QED
        BY <1>2, <3>2, <3>3, <4>1, IntroducedMore
    <3>6. Conserved(base)' /\ IntroducedFirst(known)'
      BY <3>1, <3>3, <3>4, <3>5 DEF Conserved, IntroducedFirst
    <3> QED
      BY <3>6
  <2> QED
    BY <1>2, <1>5, <2>2, <2>3, DemuxerSame DEF Reading
<1> QED
  BY <1>2, <1>4, <1>5, DemuxerSame DEF LinkInv, LinkSound

\* A step that touches neither the link nor what clients wrote
LEMMA LinkRests ==
    ASSUME LinkInv, UNCHANGED <<vars, wire, accepted, sink>>,
           \A base, known : sink /\ Conserved(base) /\ IntroducedFirst(known) =>
               Conserved(base)' /\ IntroducedFirst(known)'
    PROVE  LinkInv'
<1>1. UNCHANGED alive
  BY DEF vars
<1>2. PtysBehind'
  BY DemuxerSame DEF LinkInv, PtysBehind
<1>3. ASSUME NEW f \in SoundFrame, NEW lost, Reading(f, lost) PROVE Reading(f, lost)'
  <2>1. ASSUME sink PROVE Conserved(Ahead(f))' /\ IntroducedFirst(KnownStreams(f))'
    <3> DEFINE base == Ahead(f)
               known == KnownStreams(f)
    <3>1. base' = base /\ known' = known
      BY DemuxerSame
    <3>2. Conserved(base) /\ IntroducedFirst(known)
      BY <1>3, <2>1 DEF Reading
    <3>3. PICK base2, known2 : base2 = base /\ known2 = known
      OBVIOUS
    <3>4. Conserved(base2)' /\ IntroducedFirst(known2)'
      BY <2>1, <3>2, <3>3
    <3>5. Conserved(base)' /\ IntroducedFirst(known)'
      BY <3>1, <3>3, <3>4 DEF Conserved, IntroducedFirst
    <3> QED
      BY <3>5
  <2> QED
    BY <1>3, <2>1, DemuxerSame DEF Reading
<1> QED
  BY <1>1, <1>2, <1>3, DemuxerSame DEF LinkInv, LinkSound

\* The daemon takes a step that does not touch the link.
LEMMA LinkByDaemon ==
    ASSUME SafeInv, LinkInv, MDaemon
    PROVE  LinkInv'
<1>1. IInv /\ DInv /\ MTypeOK /\ ClientsSound /\ FramesSound
  BY DEF SafeInv
<1>2. UNCHANGED <<vars, wire, accepted>>
  BY DEF MDaemon
<1>3. ASSUME NEW c \in Clients, ClientTask(c) \/ Connect(c) \/ Close(c) PROVE LinkInv'
  BY <1>1, <1>2, <1>3, TaskStep, LinkRests
<1>4. CASE SinkRecv
  <2>1. UNCHANGED <<pc, id, payload, unread, sink>> /\ inflight = <<>> /\ chan # <<>>
        /\ inflight' = <<Head(chan)>> /\ chan' = Tail(chan)
    BY <1>4 DEF SinkRecv, task, socket
  <2>2. Queue' = Queue
    <3>1. chan \in Seq(SoundFrame)
      BY <1>1 DEF FramesSound
    <3>2. chan = <<Head(chan)>> \o Tail(chan) /\ <<>> \o chan = chan
      BY <2>1, <3>1, HeadAndTail
    <3> QED
      BY <2>1, <3>2, Zenon DEF Queue
  <2>3. ASSUME NEW base, Conserved(base) PROVE Conserved(base)'
    BY <1>2, <2>1, <2>2, <2>3, ConservedSame
  <2>4. ASSUME NEW known, IntroducedFirst(known) PROVE IntroducedFirst(known)'
    BY <2>1, <2>2, <2>4, IntroducedMore
  <2> QED
    BY <1>2, <2>1, <2>3, <2>4, LinkRests
<1> QED
  BY <1>3, <1>4 DEF MDaemon

\* The first frame of the queue is the next of what clients wrote.
LEMMA FrameIsNext ==
    ASSUME NEW base \in [Byte -> Seq(Byte)], NEW base2, Conserved(base), DInv, FramesSound,
           Queue # <<>>, Advances(base, base2, Head(Queue)), NEW i \in Byte \ {0}
    PROVE  IsPrefix(base2[i], accepted[i])
<1>1. Queue \in Seq(Frame) /\ Head(Queue) \in Frame /\ Tail(Queue) \in Seq(Frame)
  BY SoundQueue, HeadAndTail
<1> DEFINE b == base[i]
           p == Part(Head(Queue), i)
           f == Flow(Tail(Queue), i)
<1>2. b \in Seq(Byte) /\ p \in Seq(Byte) /\ f \in Seq(Byte)
  BY <1>1, PartType, FlowType
<1>3. Flow(Queue, i) = p \o f /\ base2[i] = b \o p
  BY <1>1, FlowFirst DEF Advances
<1>4. b \o p \in Seq(Byte)
  BY <1>2, ByteConcat
<1>5. ASSUME NEW x \in Seq(Byte), accepted[i] = (b \o p) \o x PROVE IsPrefix(base2[i], accepted[i])
  <2> HIDE DEF b, p
  <2> QED
    BY <1>3, <1>4, <1>5, FrontIsPrefix
<1>6. CASE \A c \in Clients : Holds(c) => id[c] # i
  <2>1. accepted[i] = b \o (p \o f)
    BY <1>3, <1>6 DEF Conserved
  <2> HIDE DEF b, p, f
  <2>2. (b \o p) \o f = b \o (p \o f)
    <3>1. Regrouped(b, p, f)
      BY <1>2, Regroup, Zenon
    <3> QED
      BY <3>1, Zenon DEF Regrouped
  <2> QED
    BY <1>2, <1>5, <2>1, <2>2
<1>7. ASSUME NEW c \in Clients, Holds(c), id[c] = i PROVE IsPrefix(base2[i], accepted[i])
  <2> DEFINE k == Kept(c)
  <2>1. k \in Seq(Byte)
    BY ClientTypes DEF DInv
  <2>2. InThree(accepted[i], b, p \o f, k)
    BY <1>3, <1>7 DEF Conserved, InThree
  <2> HIDE DEF b, p, f, k
  <2>3. InThree(accepted[i], b \o p, f, k)
    BY <1>2, <2>1, <2>2, FirstGrows, Zenon
  <2>4. f \o k \in Seq(Byte)
    BY <1>2, <2>1, ByteConcat
  <2> QED
    BY <1>5, <2>3, <2>4 DEF InThree
<1> QED
  BY <1>6, <1>7

\* The sink task writes a frame, or the beginning of one: the parser, which has
\* read the last one, is at its first byte.
LEMMA LinkBySink ==
    ASSUME SafeInv, LinkInv, MSinkWrite \/ MSinkFail
    PROVE  LinkInv'
<1>1. IInv /\ DInv /\ MTypeOK /\ FramesSound
  BY DEF SafeInv
<1>2. /\ UNCHANGED <<vars, accepted, pc, id, payload, unread, alive>> /\ sink /\ wire = <<>>
      /\ inflight # <<>> /\ inflight' = <<>>
      /\ \/ chan' = chan /\ sink' = sink
         \/ sink' = FALSE
  BY DEF MSinkWrite, MSinkFail, SinkWrite, SinkFail, task, socket, vars
<1>3. PtysBehind'
  BY <1>2, DemuxerSame DEF LinkInv, PtysBehind
<1> DEFINE f == Head(Queue)
<1>4. /\ Queue # <<>> /\ f \in SoundFrame /\ f = Head(inflight)
      /\ Tail(Queue) \in Seq(SoundFrame) /\ Queue \in Seq(SoundFrame)
      /\ Tail(Queue) = chan
  <2>1. inflight \in Seq(SoundFrame) /\ chan \in Seq(SoundFrame) /\ Len(inflight) <= 1
    BY <1>1 DEF FramesSound, DInv, DTypeOK
  <2> DEFINE x == Head(inflight)
             g == chan
  <2>2. x \in SoundFrame /\ inflight = <<x>> \o Tail(inflight) /\ Tail(inflight) = <<>>
    <3>1. /\ Head(inflight) \in SoundFrame /\ inflight = <<Head(inflight)>> \o Tail(inflight)
          /\ Len(inflight) = 1 => Tail(inflight) = <<>>
      BY <1>2, <2>1, HeadAndTail
    <3>2. Len(inflight) = 1
      <4>1. Len(inflight) \in Nat /\ Len(inflight) # 0
        BY <1>2, <2>1, EmptySeq
      <4>2. \A n \in Nat : n # 0 /\ n <= 1 => n = 1
        OBVIOUS
      <4> QED
        BY <2>1, <4>1, <4>2, Zenon
    <3> QED
      BY <3>1, <3>2
  <2>3. inflight = <<x>>
    <3>1. <<x>> \in Seq(SoundFrame)
      BY <2>2
    <3> HIDE DEF x
    <3>2. <<x>> \o <<>> = <<x>>
      BY <3>1, ConcatEmptySeq
    <3> QED
      BY <2>2, <3>2
  <2>4. Queue = <<x>> \o g
    BY <2>3, Zenon DEF Queue
  <2> HIDE DEF x, g
  <2>5. g \in Seq(SoundFrame)
    BY <2>1 DEF g
  <2>6. /\ <<x>> \o g # <<>> /\ Head(<<x>> \o g) = x /\ <<x>> \o g \in Seq(SoundFrame)
        /\ Tail(<<x>> \o g) = g
    <3> DEFINE s == <<x>> \o g
    <3>1. <<x>> \in Seq(SoundFrame) /\ Len(<<x>>) = 1
      BY <2>2
    <3>2. /\ s \in Seq(SoundFrame) /\ Len(s) = 1 + Len(g) /\ s[1] = x /\ Len(g) \in Nat
          /\ \A k \in 1..Len(g) : s[k + 1] = g[k]
      BY <2>5, <3>1
    <3> HIDE DEF s
    <3>3. s # <<>> /\ Head(s) = x
      BY <3>2
    <3>4. Tail(s) \in Seq(SoundFrame) /\ Len(Tail(s)) = Len(g) /\ \A k \in 1..Len(g) : Tail(s)[k] = g[k]
      BY <3>2, <3>3
    <3>5. Tail(s) = g
      BY <2>5, <3>4, SeqEqual
    <3> QED
      BY <3>2, <3>3, <3>5 DEF s
  <2> QED
    BY <2>2, <2>4, <2>5, <2>6 DEF x, g
<1> DEFINE bytes == Encode(f)
<1>5. PICK lost \in Seq(Byte) : wire' \o lost = bytes /\ (sink' => lost = <<>>) /\ wire' \in Seq(Byte)
  <2>1. bytes \in Seq(Byte)
    BY <1>4, EncodedIs
  <2>2. CASE MSinkWrite
    <3>1. wire' = bytes
      BY <1>4, <2>2 DEF MSinkWrite
    <3>2. <<>> \in Seq(Byte) /\ bytes \o <<>> = bytes
      BY <2>1, ConcatEmptySeq
    <3> QED
      BY <2>1, <3>1, <3>2
  <2>3. CASE MSinkFail
    <3>1. ~sink'
      BY <2>3 DEF MSinkFail, SinkFail
    <3>2. PICK n \in 0..(Len(bytes) - 1) : wire' = SubSeq(bytes, 1, n)
      BY <1>4, <2>3 DEF MSinkFail
    <3> HIDE DEF bytes
    <3>3. n \in 0..Len(bytes)
      BY <2>1, CutFrame
    <3> QED
      BY <2>1, <3>1, <3>2, <3>3, SplitAt
  <2> QED
    BY <2>2, <2>3
<1>6. ASSUME alive, NEW g \in SoundFrame, NEW l, Reading(g, l) PROVE \E h \in SoundFrame : Reading(h, lost)'
  <2>1. AtRest /\ g = Nothing
    <3>1. l = <<>> /\ Phase(g, wire \o l)
      BY <1>2, <1>6 DEF Reading
    <3>2. Phase(g, <<>>)
      <4>1. <<>> \o <<>> = <<>>
        OBVIOUS
      <4> QED
        BY <1>2, <3>1, <4>1
    <3> QED
      BY <1>6, <3>2, PhaseOver
  <2>2. Conserved(Ahead(g)) /\ IntroducedFirst(KnownStreams(g))
    BY <1>2, <1>6 DEF Reading
  <2>3. /\ KnownStreams(g) \subseteq KnownStreams(f)
        /\ f.kind = "connected" /\ f.id # 0 => f.id \in KnownStreams(f)
    <3>1. f.id \in Byte
      BY <1>4, SoundFields
    <3> HIDE DEF f
    <3> QED
      BY <2>1, <3>1 DEF KnownStreams, Nothing
  <2>4. /\ Ahead(g) \in [Byte -> Seq(Byte)] /\ Ahead(f) \in [Byte -> Seq(Byte)]
        /\ Advances(Ahead(g), Ahead(f), f)
    <3>1. /\ Ahead(g) \in [Byte -> Seq(Byte)] /\ Ahead(f) \in [Byte -> Seq(Byte)]
          /\ \A i \in Byte : Ahead(g)[i] = Delivered(i) \o Part(g, i)
          /\ \A i \in Byte : Ahead(f)[i] = Delivered(i) \o Part(f, i)
      BY <1>1, <1>4, AheadType
    <3>2. \A i \in Byte : Part(g, i) = <<>>
      BY <2>1 DEF Nothing, Part
    <3>3. \A i \in Byte : Delivered(i) \o <<>> = Delivered(i)
      BY <1>1, DeliveredType, ConcatEmptySeq
    <3>4. \A i \in Byte : Ahead(g)[i] = Delivered(i)
      BY <3>1, <3>2, <3>3, Zenon
    <3> HIDE DEF f
    <3> QED
      BY <3>1, <3>4, Zenon DEF Advances
  <2>5. f.kind = "data" => StreamPtys(f.id) # {}
    <3>1. ASSUME f.kind = "data" PROVE f.id \in KnownStreams(g)
      <4>1. 1 \in 1..Len(Queue) /\ Queue[1] = f
        BY <1>4
      <4>2. f.id \in KnownStreams(g) \/ InFront(Queue, 1, f.id)
        BY <2>2, <3>1, <4>1 DEF IntroducedFirst
      <4>3. ~InFront(Queue, 1, f.id)
        BY DEF InFront
      <4> QED
        BY <4>2, <4>3
    <3> HIDE DEF f
    <3> QED
      BY <2>1, <3>1 DEF KnownStreams, Nothing
  <2>6. PICK b1, b2, k1, k2 :
            b1 = Ahead(g) /\ b2 = Ahead(f) /\ k1 = KnownStreams(g) /\ k2 = KnownStreams(f)
    OBVIOUS
  <2>7. PICK h : h = f
    OBVIOUS
  <2>8. b1 \in [Byte -> Seq(Byte)] /\ b2 \in [Byte -> Seq(Byte)] /\ Advances(b1, b2, f)
    BY <2>4, <2>6, Zenon DEF Advances
  \* Were the rest of the queue still there
  <2>9. ASSUME sink' PROVE Conserved(b2)' /\ IntroducedFirst(k2)'
    <3>1. Queue' = Tail(Queue)
      <4>1. Queue' = <<>> \o chan /\ chan \in Seq(SoundFrame)
        BY <1>1, <1>2, <2>9, Zenon DEF Queue, FramesSound
      <4> QED
        BY <1>4, <4>1
    <3>2. Conserved(b2)'
      BY <1>1, <1>2, <1>4, <2>2, <2>6, <2>8, <3>1, ConservedByFrame
    <3>3. IntroducedFirst(k2)'
      BY <1>1, <1>2, <1>4, <2>2, <2>3, <2>6, <3>1, IntroducedByFrame
    <3> QED
      BY <3>2, <3>3
  <2>10. Phase(f, bytes) /\ wire' \o lost = bytes
    BY <1>4, <1>5, <2>1 DEF Phase
  <2>11. /\ \A x : Ahead(x)' = Ahead(x) /\ KnownStreams(x)' = KnownStreams(x)
         /\ \A x, w : Phase(x, w)' <=> Phase(x, w)
         /\ \A j : StreamPtys(j)' = StreamPtys(j)
    BY <1>2, DemuxerSame
  <2>12. \A i \in Byte \ {0} : IsPrefix(b2[i], accepted[i])
    BY <1>1, <1>4, <2>2, <2>6, <2>8, FrameIsNext
  <2>13. b2 = Ahead(h) /\ k2 = KnownStreams(h)
    BY <2>6, <2>7
  <2>14. b2 = Ahead(h)' /\ k2 = KnownStreams(h)'
    BY <2>11, <2>13
  <2>15. Phase(h, wire \o lost)'
    <3>1. PICK w2 : w2 = bytes
      OBVIOUS
    <3>2. Phase(h, w2)'
      BY <2>7, <2>10, <2>11, <3>1
    <3>3. (wire \o lost)' = w2
      BY <2>10, <3>1
    <3> QED
      BY <3>2, <3>3 DEF Phase
  <2>16. h.kind = "data" => StreamPtys(h.id)' # {}
    BY <2>5, <2>7, <2>11
  <2>17. \A i \in Byte \ {0} : IsPrefix(Ahead(h)'[i], accepted'[i])
    BY <1>2, <2>12, <2>14
  <2>18. sink' => Conserved(Ahead(h))' /\ IntroducedFirst(KnownStreams(h))'
    BY <2>9, <2>14 DEF Conserved, IntroducedFirst
  <2>19. Reading(h, lost)'
    BY <1>5, <2>15, <2>16, <2>17, <2>18 DEF Reading
  <2> QED
    BY <1>4, <2>7, <2>19
<1>7. TableSound'
  BY <1>2, DemuxerSame DEF LinkInv
<1> QED
  BY <1>2, <1>3, <1>5, <1>6, <1>7 DEF LinkInv, LinkSound

-----------------------------------------------------------------------------
(* Bytes the host reads.                                                   *)

\* At most one stream gets a byte.
OneDelivered ==
    \/ \A i \in Byte : Delivered(i)' = Delivered(i)
    \/ \E i \in Byte \ {0}, b \in Byte :
          /\ Delivered(i)' = Append(Delivered(i), b)
          /\ \A j \in Byte : j # i => Delivered(j)' = Delivered(j)

\* The thread goes on if its output can be written, and all of it goes to streams.
GoesOn ==
    /\ alive' \/ OutputFails
    /\ \A p \in {AUTOPILOT_CONTROL, PHYSICAL_UART_DEFAULT} : out'[p] = out[p]

\* Reading a byte takes the parser from frame f to frame g, the rest of f or the
\* end of it: what was to come of f is in the PTYs or still to come in g.
Carries(f, g) ==
    /\ \A i \in Byte : Delivered(i)' \o Part(g, i) = Delivered(i) \o Part(f, i)
    /\ \A j : StreamPtys(j) # {} => StreamPtys(j)' # {}
    /\ f.kind = "connected" /\ f.id # 0 => g = f \/ StreamPtys(f.id)' # {}
    /\ g.kind = "data" => StreamPtys(g.id)' # {}
    /\ TableSound'
    /\ OneDelivered /\ GoesOn

\* A table that does not change, and output only where a stream has a PTY
LEMMA TableRests ==
    ASSUME TableInv, TableSound, UNCHANGED table, NEW o \in [PtyIdx -> Seq(Byte)],
           \A p \in PtyIdx : p # RAW_CCPLEX => o[p] = out[p],
           out' = o \/ \E i, b : \E p \in StreamPtys(i) : out' = Put(o, p, b)
    PROVE  TableSound'
<1>1. /\ num_proc \in BuiltinCount..MaxPty /\ MaxPty \in Nat
  BY MaxPtyAssumption DEF TableInv, TableType
<1>2. \A p \in PtyIdx : p >= num_proc => p # RAW_CCPLEX
  BY <1>1 DEF RAW_CCPLEX, BuiltinCount, PtyIdx
<1>3. ASSUME NEW p \in PtyIdx, p >= num_proc PROVE out'[p] = <<>>
  <2>1. o[p] = <<>>
    BY <1>2, <1>3 DEF TableSound
  <2>2. ASSUME NEW i, NEW q \in StreamPtys(i) PROVE q # p
    BY <1>1, <1>3, <2>2 DEF StreamPtys, Registered, PtyIdx, BuiltinCount
  <2> QED
    BY <1>3, <2>1, <2>2 DEF Put
<1> QED
  BY <1>3 DEF TableSound, table, Registered

\* The two PTYs are not the mirror.
LEMMA BuiltinPtys ==
    \A p \in {AUTOPILOT_CONTROL, PHYSICAL_UART_DEFAULT} :
        p \in PtyIdx /\ p # RAW_CCPLEX /\ p \in Nat /\ p < BuiltinCount
BY MaxPtyAssumption DEF AUTOPILOT_CONTROL, PHYSICAL_UART_DEFAULT, RAW_CCPLEX, PtyIdx, BuiltinCount

\* Nothing is delivered and no stream is new.
LEMMA CarriesNothing ==
    ASSUME TableInv, TableInv', TableSound, UNCHANGED table, NEW o \in [PtyIdx -> Seq(Byte)],
           \A p \in PtyIdx : p # RAW_CCPLEX => o[p] = out[p], out' = o, alive' \/ OutputFails,
           NEW f, NEW g, \A i \in Byte : Part(g, i) = Part(f, i),
           f.kind = "connected" => g = f,
           g.kind = "data" => StreamPtys(g.id) # {}
    PROVE  Carries(f, g)
<1>1. \A j : StreamPtys(j)' = StreamPtys(j)
  BY SamePtys
<1>2. \A j : Delivered(j)' = Delivered(j)
  BY SameDelivered
<1>3. TableSound'
  BY TableRests
<1>4. OneDelivered /\ GoesOn
  BY <1>2, BuiltinPtys DEF OneDelivered, GoesOn
<1> QED
  BY <1>1, <1>2, <1>3, <1>4 DEF Carries

\* A byte of a data frame is delivered.
LEMMA CarriesByte ==
    ASSUME IInv, TableInv', TableSound, UNCHANGED table, NEW o \in [PtyIdx -> Seq(Byte)],
           \A p \in PtyIdx : p # RAW_CCPLEX => o[p] = out[p],
           NEW f \in SoundFrame, f.kind = "data", f.body # <<>>,
           NEW p \in StreamPtys(f.id), out' = Put(o, p, Head(f.body)), alive' \/ OutputFails
    PROVE  LET g == [f EXCEPT !.body = Tail(@)] IN g \in SoundFrame /\ Carries(f, g)
<1> DEFINE g == [f EXCEPT !.body = Tail(@)]
           b == Head(f.body)
           t == Tail(f.body)
<1>1. TableInv
  BY DEF IInv, DemuxInv, TableInv
<1>2. f \in Frame /\ f.body \in Seq(Byte) /\ f.id \in Byte /\ f.id # 0
  BY SoundFields DEF SoundFrame
<1>3. b \in Byte /\ t \in Seq(Byte) /\ f.body = <<b>> \o t
  BY <1>2, HeadAndTail
<1>4. g \in Frame /\ g.kind = "data" /\ g.id = f.id /\ g.body = t
  BY <1>2, <1>3 DEF Frame
<1>5. g \in SoundFrame
  BY <1>4 DEF SoundFrame
<1>6. /\ Delivered(f.id)' = Append(Delivered(f.id), b)
      /\ \A j : j # f.id => Delivered(j)' = Delivered(j)
  BY <1>1, PutDelivered
<1>7. \A j : StreamPtys(j)' = StreamPtys(j)
  BY SamePtys
<1>8. TableSound'
  BY <1>1, TableRests
<1>9. OneDelivered
  <2>1. f.id \in Byte \ {0}
    BY <1>2
  <2> HIDE DEF b
  <2> QED
    BY <1>3, <1>6, <2>1 DEF OneDelivered
<1>10. ASSUME NEW i \in Byte PROVE Delivered(i)' \o Part(g, i) = Delivered(i) \o Part(f, i)
  <2>1. CASE i = f.id
    <3>1. Part(g, i) = t /\ Part(f, i) = f.body
      BY <1>4, <2>1 DEF Part
    <3> DEFINE d == Delivered(i)
               x == <<b>>
    <3>2. d \in Seq(Byte) /\ x \in Seq(Byte)
      BY <1>3, DeliveredType
    <3>3. Delivered(i)' = d \o x
      BY <1>3, <1>6, <2>1, <3>2, AppendIsConcat, Zenon
    <3>4. f.body = x \o t
      BY <1>3
    <3> HIDE DEF d, x, t, b
    <3>5. (d \o x) \o t = d \o (x \o t)
      <4>1. Regrouped(d, x, t)
        BY <1>3, <3>2, Regroup, Zenon
      <4> QED
        BY <4>1, Zenon DEF Regrouped
    <3> QED
      BY <3>1, <3>3, <3>4, <3>5, Zenon DEF d
  <2>2. CASE i # f.id
    BY <1>4, <1>6, <2>2 DEF Part
  <2> QED
    BY <2>1, <2>2
<1>11. GoesOn
  <2>1. ASSUME NEW q \in {AUTOPILOT_CONTROL, PHYSICAL_UART_DEFAULT} PROVE q # p
    BY <2>1, BuiltinPtys DEF StreamPtys, BuiltinCount
  <2>2. ASSUME NEW q \in {AUTOPILOT_CONTROL, PHYSICAL_UART_DEFAULT} PROVE out'[q] = o[q]
    BY <2>1, <2>2, BuiltinPtys DEF Put
  <2> QED
    BY <2>2, BuiltinPtys DEF GoesOn
<1> HIDE DEF g
<1>12. Carries(f, g)
  BY <1>4, <1>7, <1>8, <1>9, <1>10, <1>11 DEF Carries
<1> QED
  BY <1>5, <1>12 DEF g

\* The frame that stands for an idle link is one muxd could send.
LEMMA NothingIsSound ==
    /\ Nothing \in SoundFrame /\ Nothing.kind = "disconnected"
    /\ \A i : Part(Nothing, i) = <<>>
<1>1. 0 \in Byte /\ 0 \notin {CONTROL, ESC} /\ ByteMax \in Nat
  BY ProtocolBytes DEF CONTROL, ESC, Byte
<1>2. <<>> \in Seq(Byte) /\ Len(<<>>) <= 3 * ByteMax
  BY <1>1
<1> QED
  BY <1>1, <1>2 DEF Nothing, SoundFrame, Frame, FrameKinds, Part

\* A byte of the link is parsed.
LEMMA ByteRead ==
    ASSUME SafeInv, SafeInv', Resources, TableSound, MReceive,
           NEW f \in SoundFrame, NEW lost \in Seq(Byte), Reading(f, lost)
    PROVE  \E g \in SoundFrame : Carries(f, g) /\ (alive' => Phase(g, wire \o lost)')
<1> DEFINE ch == Head(wire)
<1>1. /\ IInv /\ TableInv /\ TableInv' /\ OutType
      /\ wire \in Seq(Byte) /\ wire # <<>> /\ wire' = Tail(wire) /\ alive /\ MirrorAndFeed(ch)
  BY RawFeed, TypeParts DEF SafeInv, MTypeOK, MReceive, IInv, DemuxInv, TableInv
<1>2. ch \in Byte /\ wire' \in Seq(Byte) /\ wire = <<ch>> \o wire'
  BY <1>1, HeadAndTail
<1>3. PICK v : v = wire \o lost
  OBVIOUS
<1>4. v \in Seq(Byte) /\ v # <<>> /\ Head(v) = ch /\ Tail(v) = wire' \o lost /\ Phase(f, v)
  <2> DEFINE x == <<ch>>
             t == wire'
  <2>1. x \in Seq(Byte) /\ t \in Seq(Byte) /\ t \o lost \in Seq(Byte)
    BY <1>2
  <2>2. v = (x \o t) \o lost
    BY <1>2, <1>3
  <2> HIDE DEF x, t
  <2>3. v = x \o (t \o lost)
    BY <2>1, <2>2, ByteConcat
  <2>4. Phase(f, v)
    BY <1>3 DEF Reading
  <2> HIDE DEF ch
  <2>5. v = <<ch>> \o (t \o lost)
    BY <2>3 DEF x
  <2> QED
    BY <1>2, <2>1, <2>4, <2>5, FirstOf DEF t
<1>5. ASSUME NEW g, Phase(g, Tail(v))' PROVE Phase(g, wire \o lost)'
  <2>1. (wire \o lost)' = Tail(v)
    BY <1>4
  <2> QED
    BY <1>5, <2>1 DEF Phase
<1>6. PICK o : o = Mirrored(ch)
  OBVIOUS
<1>7. o \in [PtyIdx -> Seq(Byte)] /\ \A p \in PtyIdx : p # RAW_CCPLEX => o[p] = out[p]
  BY <1>1, <1>2, <1>6, MirrorElsewhere
<1>8. f.kind = "data" => StreamPtys(f.id) # {}
  BY DEF Reading
\* The mirror fails.
<1>9. CASE ~FeedVirtiosoByte(ch, o)
  <2>1. /\ alive' = FALSE /\ UNCHANGED table /\ OutputFails
        /\ out' = out \/ out' = o
    BY <1>1, <1>6, <1>9 DEF MirrorAndFeed, OutputFails
  <2>2. PICK u \in {out, o} : out' = u
    BY <2>1
  <2>3. u \in [PtyIdx -> Seq(Byte)] /\ \A p \in PtyIdx : p # RAW_CCPLEX => u[p] = out[p]
    BY <1>1, <1>7, <2>2 DEF OutType
  <2>4. Carries(f, f)
    BY <1>1, <1>8, <2>1, <2>2, <2>3, CarriesNothing
  <2> QED
    BY <2>1, <2>4
<1>10. CASE FeedVirtiosoByte(ch, o) /\ f.kind = "data"
  <2>1. /\ UNCHANGED table
        /\ \/ out' = o /\ alive' = TRUE /\ Phase(f, Tail(v))'
           \/ out' = o /\ alive' = TRUE /\ f.body = <<>> /\ Phase(Nothing, Tail(v))'
           \/ /\ f.body # <<>>
              /\ \E p \in StreamPtys(f.id) : out' = Put(o, p, Head(f.body))
              /\ alive' = TRUE \/ (alive' = FALSE /\ OutputFails)
              /\ alive' => Phase([f EXCEPT !.body = Tail(@)], Tail(v))'
           \/ out' = o /\ alive' = FALSE /\ OutputFails
    BY <1>1, <1>4, <1>8, <1>10, DataByte
  <2>2. CASE out' = o /\ ((alive' = TRUE /\ Phase(f, Tail(v))') \/ (alive' = FALSE /\ OutputFails))
    <3>1. Carries(f, f)
      BY <1>1, <1>7, <1>8, <2>1, <2>2, CarriesNothing
    <3> QED
      BY <1>5, <2>2, <3>1
  <2>3. CASE out' = o /\ alive' = TRUE /\ f.body = <<>> /\ Phase(Nothing, Tail(v))'
    <3>1. \A i : Part(f, i) = <<>>
      BY <2>3 DEF Part
    <3>2. Carries(f, Nothing)
      BY <1>1, <1>7, <1>10, <2>1, <2>3, <3>1, NothingIsSound, CarriesNothing
    <3> QED
      BY <1>5, <2>3, <3>2, NothingIsSound
  <2>4. ASSUME f.body # <<>>, NEW p \in StreamPtys(f.id), out' = Put(o, p, Head(f.body)),
               alive' \/ OutputFails,
               alive' => Phase([f EXCEPT !.body = Tail(@)], Tail(v))'
        PROVE  \E g \in SoundFrame : Carries(f, g) /\ (alive' => Phase(g, wire \o lost)')
    <3> DEFINE g == [f EXCEPT !.body = Tail(@)]
    <3>1. g \in SoundFrame /\ Carries(f, g)
      BY <1>1, <1>7, <1>10, <2>1, <2>4, CarriesByte
    <3>2. alive' => Phase(g, wire \o lost)'
      BY <1>5, <2>4
    <3> HIDE DEF g
    <3> QED
      BY <3>1, <3>2
  <2> QED
    BY <2>1, <2>2, <2>3, <2>4
<1>11. CASE FeedVirtiosoByte(ch, o) /\ f.kind # "data"
  <2>1. /\ out' = o /\ alive' = TRUE
        /\ \/ UNCHANGED table /\ Phase(f, Tail(v))'
           \/ f.kind = "connected" /\ ApplyConnected(f.id, f.body) /\ Phase(Nothing, Tail(v))'
           \/ f.kind = "disconnected" /\ UNCHANGED table /\ Phase(Nothing, Tail(v))'
    BY <1>1, <1>4, <1>11, RecordByte
  <2>2. \A i : Part(f, i) = <<>>
    BY <1>11 DEF Part
  <2>3. CASE UNCHANGED table /\ Phase(f, Tail(v))'
    <3>1. Carries(f, f)
      BY <1>1, <1>7, <1>8, <2>1, <2>3, CarriesNothing
    <3> QED
      BY <1>5, <2>3, <3>1
  <2>4. CASE f.kind = "disconnected" /\ UNCHANGED table /\ Phase(Nothing, Tail(v))'
    <3>1. Carries(f, Nothing)
      BY <1>1, <1>7, <2>1, <2>2, <2>4, NothingIsSound, CarriesNothing
    <3> QED
      BY <1>5, <2>4, <3>1, NothingIsSound
  <2>5. CASE f.kind = "connected" /\ ApplyConnected(f.id, f.body) /\ Phase(Nothing, Tail(v))'
    <3>1. f.id \in Byte /\ f.id \notin {CONTROL, ESC}
      BY SoundFields DEF SoundFrame
    <3>2. \A p \in PtyIdx : p # RAW_CCPLEX => out'[p] = out[p]
      BY <1>7, <2>1
    <3>3. /\ TableSound'
          /\ f.id # 0 => StreamPtys(f.id)' # {}
          /\ \A j : /\ StreamPtys(j) # {} => StreamPtys(j)' # {}
                    /\ Delivered(j)' = Delivered(j)
      BY <1>1, <2>5, <3>1, <3>2, Introduces
    <3>4. Carries(f, Nothing)
      BY <2>1, <2>2, <3>2, <3>3, NothingIsSound, BuiltinPtys DEF Carries, OneDelivered, GoesOn
    <3> QED
      BY <1>5, <2>5, <3>4, NothingIsSound
  <2> QED
    BY <2>1, <2>3, <2>4, <2>5
<1> QED
  BY <1>9, <1>10, <1>11

\* The link goes on as before with the rest of the frame.
LEMMA LinkByReceive ==
    ASSUME SafeInv, SafeInv', Resources, LinkInv, MReceive
    PROVE  LinkInv' /\ OneDelivered /\ GoesOn
<1>1. /\ IInv /\ IInv' /\ MTypeOK /\ alive
      /\ UNCHANGED <<accepted, chan, inflight, pc, id, payload, unread, sink>>
  BY RawFeed DEF SafeInv, MReceive, dvars, task, socket, queue
<1>2. PICK f \in SoundFrame, lost \in Seq(Byte) : Reading(f, lost)
  BY <1>1 DEF LinkInv, LinkSound
<1>3. PICK g \in SoundFrame : Carries(f, g) /\ (alive' => Phase(g, wire \o lost)')
  BY <1>2, ByteRead DEF LinkInv
<1>4. Ahead(f) \in [Byte -> Seq(Byte)] /\ \A i \in Byte : Ahead(f)[i] = Delivered(i) \o Part(f, i)
  BY <1>1, AheadType
<1>5. Ahead(g)' = Ahead(f)
  <2>1. \A i \in Byte : Delivered(i)' \o Part(g, i) = Delivered(i) \o Part(f, i)
    BY <1>3 DEF Carries
  <2> QED
    BY <2>1 DEF Ahead
<1>6. KnownStreams(f) \subseteq KnownStreams(g)'
  <2> SUFFICES ASSUME NEW i \in KnownStreams(f) PROVE i \in KnownStreams(g)'
    OBVIOUS
  <2> QED
    BY <1>3 DEF KnownStreams, Carries
<1>7. PICK base, known, known2 : base = Ahead(f) /\ known = KnownStreams(f) /\ known2 = KnownStreams(g)'
  OBVIOUS
<1>8. Queue' = Queue
  BY <1>1 DEF Queue
<1>9. ASSUME sink' PROVE Conserved(Ahead(g))' /\ IntroducedFirst(KnownStreams(g))'
  <2>1. Conserved(base) /\ IntroducedFirst(known)
    BY <1>1, <1>2, <1>7, <1>9 DEF Reading
  <2>2. Conserved(base)' /\ IntroducedFirst(known2)'
    BY <1>1, <1>6, <1>7, <1>8, <2>1, ConservedSame, IntroducedMore
  <2> QED
    BY <1>5, <1>7, <2>2 DEF Conserved, IntroducedFirst
<1>10. \A i \in Byte \ {0} : IsPrefix(Ahead(g)'[i], accepted'[i])
  BY <1>1, <1>2, <1>5 DEF Reading
<1>11. alive' => Reading(g, lost)'
  BY <1>1, <1>2, <1>3, <1>9, <1>10 DEF Reading, Carries
<1>12. ASSUME NEW i \in Byte \ {0} PROVE IsPrefix(Delivered(i), accepted[i])'
  <2>1. Delivered(i)' \in Seq(Byte)
    BY <1>1, DeliveredTypeThen
  <2>2. Part(g, i) \in Seq(Byte) /\ accepted'[i] \in Seq(Byte)
    BY <1>1, PartType, SoundFields DEF MTypeOK
  <2>3. Ahead(g)'[i] = Delivered(i)' \o Part(g, i)
    BY DEF Ahead
  <2> DEFINE d == Delivered(i)'
             p == Part(g, i)
             a == accepted'[i]
  <2>4. d \in Seq(Byte) /\ p \in Seq(Byte) /\ a \in Seq(Byte) /\ IsPrefix(d \o p, a)
    BY <1>10, <2>1, <2>2, <2>3
  <2> HIDE DEF d, p, a
  <2>5. IsPrefix(d, d \o p) /\ d \o p \in Seq(Byte)
    BY <2>4, FrontIsPrefix
  <2>6. IsPrefix(d, a)
    BY <2>4, <2>5, PrefixTransitive
  <2> QED
    BY <2>6 DEF d, a, IsPrefix
<1> QED
  BY <1>3, <1>11, <1>12 DEF LinkInv, LinkSound, PtysBehind, Carries

-----------------------------------------------------------------------------
(* One channel per stream.                                                 *)

\* When the two sides start nothing is on its way.
LEMMA LinkInit ==
    ASSUME MInit
    PROVE  LinkInv
<1>1. /\ wire = <<>> /\ accepted = [i \in Byte |-> <<>>] /\ chan = <<>> /\ inflight = <<>>
      /\ \A c \in Clients : pc[c] = "none"
      /\ num_proc = BuiltinCount /\ out = [p \in PtyIdx |-> <<>>] /\ AtRest
  BY DEF MInit, DInit, Init, InitTty, AtRest
<1>2. \A i : StreamPtys(i) = {} /\ Delivered(i) = <<>>
  BY <1>1 DEF StreamPtys, Registered, BuiltinCount, Delivered
<1>3. TableSound
  BY <1>1 DEF TableSound, Registered, BuiltinCount
<1>4. PtysBehind
  <2>1. IsPrefix(<<>>, <<>>)
    BY DEF IsPrefix
  <2> QED
    BY <1>1, <1>2, <2>1 DEF PtysBehind
<1>5. <<>> \o <<>> = <<>> /\ <<>> \in Seq(Byte)
  OBVIOUS
<1>6. \A i \in Byte : Ahead(Nothing)[i] = <<>>
  BY <1>2, <1>5, NothingIsSound DEF Ahead
<1>7. Queue = <<>>
  BY <1>1, <1>5 DEF Queue
<1>8. Conserved(Ahead(Nothing))
  <2>1. \A c \in Clients : ~Holds(c)
    BY <1>1 DEF Holds
  <2>2. \A i : Flow(Queue, i) = <<>>
    BY <1>7, FlowEmpty
  <2> QED
    BY <1>1, <1>5, <1>6, <2>1, <2>2, Zenon DEF Conserved
<1>9. IntroducedFirst(KnownStreams(Nothing))
  <2>1. Len(Queue) = 0
    BY <1>7
  <2>2. 1..Len(Queue) = {}
    BY <2>1
  <2> QED
    BY <1>1, <2>2 DEF IntroducedFirst
<1>10. Reading(Nothing, <<>>)
  <2>1. Phase(Nothing, wire \o <<>>)
    BY <1>1, <1>5 DEF Phase
  <2>2. \A i \in Byte \ {0} : IsPrefix(Ahead(Nothing)[i], accepted[i])
    <3>1. IsPrefix(<<>>, <<>>)
      BY DEF IsPrefix
    <3> QED
      BY <1>1, <1>6, <3>1
  <2> QED
    BY <1>8, <1>9, <2>1, <2>2, NothingIsSound DEF Reading
<1> QED
  BY <1>3, <1>4, <1>5, <1>10, NothingIsSound DEF LinkInv, LinkSound

\* LinkInv is kept by every step.
LEMMA LinkStep ==
    ASSUME Resources, SafeInv, SafeInv', LinkInv, [MNext]_mvars
    PROVE  LinkInv'
<1>1. CASE UNCHANGED mvars
  <2>1. UNCHANGED <<vars, wire, accepted, sink, pc, id, payload, unread, chan, inflight>>
    BY <1>1 DEF mvars, dvars, task, socket, queue
  <2>2. Queue' = Queue
    BY <2>1 DEF Queue
  <2>3. ASSUME NEW base, Conserved(base) PROVE Conserved(base)'
    BY <2>1, <2>2, <2>3, ConservedSame
  <2>4. ASSUME NEW known, IntroducedFirst(known) PROVE IntroducedFirst(known)'
    BY <2>1, <2>2, <2>4, IntroducedMore
  <2> QED
    BY <2>1, <2>3, <2>4, LinkRests
<1> QED
  BY <1>1, LinkByWrite, LinkByDaemon, LinkBySink, LinkByReceive DEF MNext

\* The inductive invariant of the link
LEMMA LinkInductive ==
    ASSUME Resources
    PROVE  MSpec => [](SafeInv /\ LinkInv)
<1>1. MInit => SafeInv /\ LinkInv
  BY MInitSafe, LinkInit
<1>2. (SafeInv /\ LinkInv) /\ [MNext]_mvars => (SafeInv /\ LinkInv)'
  BY SafeStep, LinkStep
<1> QED
  BY <1>1, <1>2, PTL DEF MSpec

\* A byte that reaches a PTY is the next that was written on its stream.
LEMMA ReceiveDelivers ==
    ASSUME SafeInv, SafeInv', LinkInv', MReceive, OneDelivered
    PROVE  [Channels!CNext]_(Channels!cvars)
<1> DEFINE Ids == Byte \ {0}
<1>1. /\ IInv /\ accepted \in [Byte -> Seq(Byte)] /\ UNCHANGED accepted
  BY DEF SafeInv, MTypeOK, MReceive
<1>2. CASE \A i \in Byte : Delivered(i)' = Delivered(i)
  <2>1. UNCHANGED [i \in Ids |-> accepted[i]] /\ UNCHANGED [i \in Ids |-> Delivered(i)]
    BY <1>1, <1>2
  <2> QED
    BY <2>1 DEF Channels!cvars
<1>3. ASSUME NEW i \in Ids, NEW b \in Byte, Delivered(i)' = Append(Delivered(i), b),
             \A j \in Byte : j # i => Delivered(j)' = Delivered(j)
      PROVE  Channels!CNext
  <2> DEFINE d == Delivered(i)
             a == accepted[i]
  <2>1. d \in Seq(Byte) /\ a \in Seq(Byte)
    BY <1>1, DeliveredType
  <2>2. IsPrefix(Append(d, b), a)
    BY <1>1, <1>3 DEF LinkInv, PtysBehind
  <2> HIDE DEF d, a
  <2>3. Len(d) < Len(a) /\ a[Len(d) + 1] = b
    BY <2>1, <2>2, NextOfPrefix
  <2> USE DEF d, a
  <2>4. [j \in Ids |-> Delivered(j)]' = [[j \in Ids |-> Delivered(j)] EXCEPT ![i] = Append(@, b)]
    BY <1>3
  <2>5. [j \in Ids |-> accepted[j]]' = [j \in Ids |-> accepted[j]]
    BY <1>1
  <2>6. Channels!Deliver(i)
    BY <2>3, <2>4, <2>5 DEF Channels!Deliver
  <2> QED
    BY <2>6 DEF Channels!CNext
<1> QED
  BY <1>2, <1>3 DEF OneDelivered

\* What a client writes is accepted.
LEMMA WriteAccepts ==
    ASSUME SafeInv, NEW c \in Clients, NEW b \in DataBytes, MWrite(c, b)
    PROVE  Channels!CNext
<1> DEFINE Ids == Byte \ {0}
<1>1. /\ accepted \in [Byte -> Seq(Byte)] /\ UNCHANGED vars /\ id[c] \in Ids
      /\ accepted' = [accepted EXCEPT ![id[c]] = Append(@, b)]
  <2>1. id[c] \in Byte
    BY ClientTypes DEF SafeInv, DInv
  <2> QED
    BY <2>1 DEF SafeInv, MTypeOK, MWrite, Write
<1>2. PICK i \in Ids : i = id[c]
  BY <1>1
<1>3. [j \in Ids |-> Delivered(j)]' = [j \in Ids |-> Delivered(j)]
  BY <1>1, DemuxerSame
<1>4. [j \in Ids |-> accepted[j]]' = [[j \in Ids |-> accepted[j]] EXCEPT ![i] = Append(@, b)]
  BY <1>1, <1>2
<1>5. Channels!Accept(i, b)
  BY <1>3, <1>4 DEF Channels!Accept
<1> QED
  BY <1>5 DEF Channels!CNext

\* muxd, the link and the demuxer together are what StreamChannels promises: one
\* FIFO channel of bytes for each stream ID, for any number of clients and
\* sessions, any interleaving of their tasks with the sink and with the host,
\* whatever bytes they write, wherever the sink breaks off in a frame, and
\* whatever of the host's logs and PTYs fails: as long as the host can allocate a
\* PTY for a stream muxd announces.
THEOREM ChannelsRefined ==
    ASSUME Resources
    PROVE  MSpec => ImplementsChannels
<1>1. ASSUME MInit PROVE Channels!CInit
  <2>1. /\ accepted = [i \in Byte |-> <<>>] /\ num_proc = BuiltinCount
    BY <1>1 DEF MInit, Init, InitTty
  <2>2. \A i : Delivered(i) = <<>>
    BY <2>1 DEF StreamPtys, Registered, BuiltinCount, Delivered
  <2> QED
    BY <2>1, <2>2 DEF Channels!CInit
<1>2. ASSUME SafeInv /\ LinkInv, (SafeInv /\ LinkInv)', [MNext]_mvars
      PROVE  [Channels!CNext]_(Channels!cvars)
  <2>1. ASSUME NEW c \in Clients, NEW b \in DataBytes, MWrite(c, b) PROVE Channels!CNext
    BY <1>2, <2>1, WriteAccepts
  <2>2. CASE MReceive
    BY <1>2, <2>2, LinkByReceive, ReceiveDelivers
  <2>3. ASSUME UNCHANGED <<vars, accepted>> PROVE UNCHANGED Channels!cvars
    <3>1. /\ [i \in Byte \ {0} |-> Delivered(i)]' = [i \in Byte \ {0} |-> Delivered(i)]
          /\ [i \in Byte \ {0} |-> accepted[i]]' = [i \in Byte \ {0} |-> accepted[i]]
      BY <2>3, DemuxerSame
    <3> QED
      BY <3>1 DEF Channels!cvars
  <2>4. CASE MDaemon \/ MSinkWrite \/ MSinkFail
    BY <2>3, <2>4 DEF MDaemon, MSinkWrite, MSinkFail
  <2>5. CASE UNCHANGED mvars
    BY <2>3, <2>5 DEF mvars
  <2> QED
    BY <1>2, <2>1, <2>2, <2>4, <2>5 DEF MNext
<1>3. MSpec => [][MNext]_mvars
  BY DEF MSpec
<1> QED
  BY <1>1, <1>2, <1>3, LinkInductive, PTL DEF MSpec, ImplementsChannels, Channels!CSpec

\* And nothing of what clients write is printed as unframed output: the thread
\* does not end and the two PTYs of the host that no stream has get nothing, as
\* no byte of a frame is read before its stream has a PTY.  It needs a host whose
\* calls do not fail: a log or a PTY that cannot be written ends the thread.
THEOREM OnlyFramedOutput ==
    ASSUME Resources, ~OutputFails
    PROVE  MSpec => []NothingUnframed
<1>1. MInit => NothingUnframed
  BY BuiltinPtys DEF MInit, Init, InitTty, NothingUnframed
<1>2. ASSUME SafeInv /\ LinkInv, (SafeInv /\ LinkInv)', NothingUnframed, [MNext]_mvars
      PROVE  NothingUnframed'
  <2>1. CASE MReceive
    <3>1. GoesOn
      BY <1>2, <2>1, LinkByReceive
    <3> QED
      BY <1>2, <3>1 DEF GoesOn, NothingUnframed
  <2>2. ASSUME UNCHANGED vars PROVE NothingUnframed'
    BY <1>2, <2>2 DEF NothingUnframed, vars
  <2>3. CASE MDaemon \/ MSinkWrite \/ MSinkFail \/ \E c \in Clients, b \in DataBytes : MWrite(c, b)
    BY <2>2, <2>3 DEF MDaemon, MSinkWrite, MSinkFail, MWrite
  <2>4. CASE UNCHANGED mvars
    BY <2>2, <2>4 DEF mvars
  <2> QED
    BY <1>2, <2>1, <2>3, <2>4 DEF MNext
<1>3. (SafeInv /\ LinkInv) /\ (SafeInv /\ LinkInv)' /\ NothingUnframed /\ [MNext]_mvars
          => NothingUnframed'
  BY <1>2
<1> QED
  BY <1>1, <1>3, LinkInductive, PTL DEF MSpec
=============================================================================
