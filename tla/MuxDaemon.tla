----------------------------- MODULE MuxDaemon -----------------------------
(***************************************************************************)
(* virtioso-muxd (linux/virtioso-muxd/src/main.rs): clients connect to a   *)
(* Unix socket, enroll under a name and get a stream ID; their output is   *)
(* framed and queued on one bounded channel, which one task writes to the  *)
(* sink.                                                                   *)
(*                                                                         *)
(* handle_client runs as one task per connection and may be suspended at   *)
(* every await, so each await is a step of its own: pc[c] names the await  *)
(* client c's task is at.  The client end of the socket behaves as         *)
(* virtioso-mux-exec does: it writes only after it has read a stream ID    *)
(* other than 0.                                                           *)
(***************************************************************************)
EXTENDS VCMux, FiniteSets

CONSTANTS
    Clients,      \* connections that can exist at a time
    Names,        \* names a client may enroll under
    DataBytes,    \* bytes a client may write
    ChanCap,      \* capacity of the mpsc channel (256)
    MaxRead,      \* MAX_READ, size of the read buffer
    MaxWrite,     \* bound: bytes a client writes in a session
    MaxSessions,  \* bound: connections accepted
    SinkMayFail   \* whether writing to the sink can fail

ASSUME DaemonAssumption ==
    /\ Names \subseteq Seq(Byte)
    /\ DataBytes \subseteq Byte
    /\ ChanCap \in Nat \ {0} /\ MaxRead \in Nat \ {0}
    /\ MaxWrite \in Nat /\ MaxSessions \in Nat
    /\ SinkMayFail \in BOOLEAN

\* The length of a name is a byte; from_utf8_lossy makes at most three bytes of one.
ASSUME NameAssumption == \A n \in Names : Len(n) <= 3 * ByteMax

VARIABLES
    used,       \* IdPool.used
    next,       \* IdPool.next
    pc,         \* where client c's task is
    peer,       \* the client's end of the connection is open
    id,         \* stream ID of c's session
    name,       \* name c enrolled under
    unread,     \* bytes c wrote that its task has not read
    written,    \* how many bytes c wrote in this session
    payload,    \* bytes the task read and has not sent
    chan,       \* the channel
    inflight,   \* the frame the sink task is writing, in a sequence of 0 or 1
    sink,       \* the sink task runs
    last,       \* history: kind of the last frame queued for each stream ID
    sessions    \* connections accepted so far

pool   == <<used, next>>
socket == <<peer, unread, written>>
task   == <<pc, id, name, payload>>
queue  == <<chan, inflight, sink, last>>
dvars  == <<pool, socket, task, queue, sessions>>

\* used[i] as IdPool::new leaves it
ReservedIds == {DEFAULT, CONTROL, ESC}

PCs == {"none", "enroll", "alloc", "reply", "undo", "connected", "read", "data",
        "disconnected", "free"}

\* The task holds the ID it was given.
Holds(c) == pc[c] \in {"reply", "undo", "connected", "read", "data", "disconnected", "free"}

FrameKinds == {"connected", "data", "disconnected"}
Frame == [kind: FrameKinds, id: Byte, body: Seq(Byte)]

DTypeOK ==
    /\ used \in [Byte -> BOOLEAN]
    /\ next \in 1..ByteMax
    /\ pc \in [Clients -> PCs]
    /\ peer \in [Clients -> BOOLEAN]
    /\ id \in [Clients -> Byte]
    /\ name \in [Clients -> Seq(Byte)]
    /\ unread \in [Clients -> Seq(Byte)]
    /\ written \in [Clients -> Nat]
    /\ payload \in [Clients -> Seq(Byte)]
    /\ chan \in Seq(Frame) /\ Len(chan) <= ChanCap
    /\ inflight \in Seq(Frame) /\ Len(inflight) <= 1
    /\ sink \in BOOLEAN
    /\ last \in [Byte -> FrameKinds]
    /\ sessions \in Nat

DInit ==
    /\ used = [i \in Byte |-> i \in ReservedIds]
    /\ next = 1
    /\ pc = [c \in Clients |-> "none"]
    /\ peer = [c \in Clients |-> FALSE]
    /\ id = [c \in Clients |-> 0]
    /\ name = [c \in Clients |-> <<>>]
    /\ unread = [c \in Clients |-> <<>>]
    /\ written = [c \in Clients |-> 0]
    /\ payload = [c \in Clients |-> <<>>]
    /\ chan = <<>>
    /\ inflight = <<>>
    /\ sink = TRUE
    /\ last = [i \in Byte |-> "disconnected"]
    /\ sessions = 0

-----------------------------------------------------------------------------
(* The pool of stream IDs.                                                 *)

\* The k-th ID alloc looks at: next and its successors, 255 wrapping to 1.
Candidate(k) == 1 + ((next - 1 + k) % ByteMax)

Successor(i) == 1 + (i % ByteMax)

\* A session has the ID, or framing does.
TakenByFraming(i) == i \in ReservedIds
Taken(i) == used[i]

\* alloc: the first ID from next on that is not used, or 0 and no change when
\* the scan comes back to where it began.
AllocatesId(c) ==
    \/ \E k \in 0..(ByteMax - 1) :
          /\ ~Taken(Candidate(k))
          /\ \A j \in 0..(k - 1) : Taken(Candidate(j))
          /\ id' = [id EXCEPT ![c] = Candidate(k)]
          /\ used' = [used EXCEPT ![Candidate(k)] = TRUE]
          /\ next' = Successor(Candidate(k))
    \/ /\ \A i \in 1..ByteMax : Taken(i)
       /\ id' = [id EXCEPT ![c] = 0]
       /\ UNCHANGED pool

FreesId(c) ==
    /\ used' = [used EXCEPT ![id[c]] = id[c] \in ReservedIds]
    /\ UNCHANGED next

-----------------------------------------------------------------------------
(* The client's end.                                                       *)

\* accept: a task is spawned for the connection.
Connect(c) ==
    /\ pc[c] = "none"
    /\ sessions < MaxSessions
    /\ sessions' = sessions + 1
    /\ pc' = [pc EXCEPT ![c] = "enroll"]
    /\ peer' = [peer EXCEPT ![c] = TRUE]
    /\ UNCHANGED <<pool, unread, written, id, name, payload, queue>>

Write(c, b) ==
    /\ peer[c]
    /\ pc[c] \in {"connected", "read", "data"}
    /\ id[c] # 0
    /\ written[c] < MaxWrite
    /\ unread' = [unread EXCEPT ![c] = Append(@, b)]
    /\ written' = [written EXCEPT ![c] = @ + 1]
    /\ UNCHANGED <<pool, peer, task, queue, sessions>>

\* The client closes or dies, at any time.
Close(c) ==
    /\ peer[c]
    /\ peer' = [peer EXCEPT ![c] = FALSE]
    /\ UNCHANGED <<pool, unread, written, task, queue, sessions>>

-----------------------------------------------------------------------------
(* handle_client.                                                          *)

Goto(c, label) == pc' = [pc EXCEPT ![c] = label]

\* The task returns: its locals go, and with conn the client's connection.
Return(c) ==
    /\ Goto(c, "none")
    /\ peer' = [peer EXCEPT ![c] = FALSE]
    /\ unread' = [unread EXCEPT ![c] = <<>>]
    /\ written' = [written EXCEPT ![c] = 0]
    /\ id' = [id EXCEPT ![c] = 0]
    /\ name' = [name EXCEPT ![c] = <<>>]

\* The name arrives, perhaps from a client that has closed since; an empty name
\* or a connection closed before it ends the task.
Enroll(c) ==
    /\ pc[c] = "enroll"
    /\ \/ \E n \in Names :
             /\ n # <<>>
             /\ name' = [name EXCEPT ![c] = n]
             /\ Goto(c, "alloc")
             /\ UNCHANGED <<socket, id>>
       \/ /\ ~peer[c] \/ <<>> \in Names
          /\ Return(c)
    /\ UNCHANGED <<pool, payload, queue, sessions>>

Alloc(c) ==
    /\ pc[c] = "alloc"
    /\ AllocatesId(c)
    /\ Goto(c, "reply")
    /\ UNCHANGED <<socket, name, payload, queue, sessions>>

\* write_u8 of the ID
Reply(c) ==
    /\ pc[c] = "reply"
    /\ Goto(c, IF peer[c] THEN "connected" ELSE "undo")
    /\ UNCHANGED <<pool, socket, id, name, payload, queue, sessions>>

UndoKeepsId(c) ==
    /\ pc[c] = "undo"
    /\ Return(c)
    /\ UNCHANGED <<pool, payload, queue, sessions>>

\* The reply could not be written: the ID goes back.
Undo(c) ==
    /\ pc[c] = "undo"
    /\ FreesId(c)
    /\ Return(c)
    /\ UNCHANGED <<payload, queue, sessions>>

\* The channel has a free place.
RoomForOneMore == Len(chan) <= ChanCap
RoomButOne == Len(chan) + 1 < ChanCap
Room == Len(chan) < ChanCap

\* tx.send: waits for a place in the channel; fails when the receiver is gone.
Queued(kind, c, body) ==
    /\ sink
    /\ Room
    /\ chan' = Append(chan, [kind |-> kind, id |-> id[c], body |-> body])
    /\ last' = [last EXCEPT ![id[c]] = kind]
    /\ UNCHANGED <<inflight, sink>>

\* A sender that does not notice that the receiver is gone.
NeverRefused == FALSE
Refused ==
    /\ ~sink
    /\ UNCHANGED queue

SendConnectedIfRoom(c) ==
    /\ pc[c] = "connected"
    /\ Queued("connected", c, name[c]) \/ (~Room /\ UNCHANGED queue) \/ Refused
    /\ Goto(c, "read")
    /\ UNCHANGED <<pool, socket, id, name, payload, sessions>>

SendConnected(c) ==
    /\ pc[c] = "connected"
    /\ Queued("connected", c, name[c]) \/ Refused
    /\ Goto(c, "read")
    /\ UNCHANGED <<pool, socket, id, name, payload, sessions>>

\* A read returns what there is, up to the size of the buffer.
ReadData(c) ==
    /\ pc[c] = "read"
    /\ \E n \in 1..MaxRead :
          /\ n <= Len(unread[c])
          /\ payload' = [payload EXCEPT ![c] = SubSeq(unread[c], 1, n)]
          /\ unread' = [unread EXCEPT ![c] = SubSeq(@, n + 1, Len(@))]
    /\ Goto(c, "data")
    /\ UNCHANGED <<pool, peer, written, id, name, queue, sessions>>

ReadEofFreesId(c) ==
    /\ pc[c] = "read"
    /\ ~peer[c] /\ unread[c] = <<>>
    /\ FreesId(c)
    /\ Goto(c, "disconnected")
    /\ UNCHANGED <<socket, id, name, payload, queue, sessions>>

\* End of file: the client has closed and all it wrote has been read.
ReadEof(c) ==
    /\ pc[c] = "read"
    /\ ~peer[c] /\ unread[c] = <<>>
    /\ Goto(c, "disconnected")
    /\ UNCHANGED <<pool, socket, id, name, payload, queue, sessions>>

SendData(c) ==
    /\ pc[c] = "data"
    /\ \/ Queued("data", c, payload[c]) /\ Goto(c, "read")
       \/ Refused /\ Goto(c, "disconnected")
    /\ payload' = [payload EXCEPT ![c] = <<>>]
    /\ UNCHANGED <<pool, socket, id, name, sessions>>

SendDisconnected(c) ==
    /\ pc[c] = "disconnected"
    /\ Queued("disconnected", c, name[c]) \/ Refused
    /\ Goto(c, "free")
    /\ UNCHANGED <<pool, socket, id, name, payload, sessions>>

\* The ID goes back to the pool and the connection is dropped.
Free(c) ==
    /\ pc[c] = "free"
    /\ FreesId(c)
    /\ Return(c)
    /\ UNCHANGED <<payload, queue, sessions>>

-----------------------------------------------------------------------------
(* sink_task.                                                              *)

SinkRecv ==
    /\ sink /\ inflight = <<>> /\ chan # <<>>
    /\ inflight' = <<Head(chan)>>
    /\ chan' = Tail(chan)
    /\ UNCHANGED <<pool, socket, task, sink, last, sessions>>

SinkWrite ==
    /\ sink /\ inflight # <<>>
    /\ inflight' = <<>>
    /\ UNCHANGED <<pool, socket, task, chan, sink, last, sessions>>

\* A failed write ends the task and drops the receiver with all it holds.
SinkFail ==
    /\ SinkMayFail
    /\ sink /\ inflight # <<>>
    /\ sink' = FALSE
    /\ inflight' = <<>>
    /\ chan' = <<>>
    /\ UNCHANGED <<pool, socket, task, last, sessions>>

-----------------------------------------------------------------------------
ClientTask(c) ==
    \/ Enroll(c) \/ Alloc(c) \/ Reply(c) \/ Undo(c)
    \/ SendConnected(c) \/ ReadData(c) \/ ReadEof(c) \/ SendData(c)
    \/ SendDisconnected(c) \/ Free(c)

ClientEnd(c) == Connect(c) \/ Close(c) \/ \E b \in DataBytes : Write(c, b)

SinkTask == SinkRecv \/ SinkWrite \/ SinkFail

DNext == (\E c \in Clients : ClientTask(c) \/ ClientEnd(c)) \/ SinkTask

DSpec == DInit /\ [][DNext]_dvars

\* The runtime polls every ready task; a task that waits for a place in the
\* channel gets one, because waiting senders are served in turn (tokio's mpsc
\* channel hands its permits out in FIFO order).  The sink accepts bytes or
\* fails.  Nothing is assumed of clients.
DFairness ==
    /\ \A c \in Clients :
          /\ WF_dvars(Alloc(c) \/ Reply(c) \/ Undo(c) \/ ReadData(c) \/ ReadEof(c) \/ Free(c))
          /\ SF_dvars(SendConnected(c) \/ SendData(c) \/ SendDisconnected(c))
    /\ WF_dvars(SinkRecv \/ SinkWrite)

DFairSpec == DSpec /\ DFairness

-----------------------------------------------------------------------------
(* Properties.                                                             *)

\* Two sessions that are alive at the same time never share a stream ID, and
\* no session has an ID that is a framing byte.  (ID 0 is what an exhausted pool
\* gives to every further client.)
UniqueIds ==
    \A c \in Clients :
        Holds(c) =>
            /\ id[c] \notin {CONTROL, ESC}
            /\ \A d \in Clients \ {c} : Holds(d) /\ id[c] # 0 => id[d] # id[c]

\* The pool and the sessions agree: an ID is taken exactly as long as a session
\* has it.  No way out of handle_client leaks an ID or returns one in use.
PoolMatchesSessions ==
    \A i \in Byte \ ReservedIds :
        used[i] <=> \E c \in Clients : Holds(c) /\ id[c] = i

\* A frame of kind l may follow one of kind k on the same stream ID.
Follows(k, l) ==
    IF k = "disconnected" THEN l = "connected" ELSE l \in {"data", "disconnected"}

\* For each stream ID the frames are a series of sessions CONNECTED,
\* data..., DISCONNECTED, however the tasks interleave: an ID is reused only
\* after the DISCONNECTED of its last session is in the channel, and a session
\* is never announced or ended twice.
FramesFormSessions ==
    [][Len(chan') > Len(chan) =>
           LET f == chan'[Len(chan')]
           IN  f.id # 0 => Follows(last[f.id], f.kind)]_dvars

\* A client that is gone gives its ID back, also when the sink has failed and
\* when the channel is full.
IdsAreReturned ==
    \A c \in Clients : (Holds(c) /\ ~peer[c]) ~> ~Holds(c)
=============================================================================
