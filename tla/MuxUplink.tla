----------------------------- MODULE MuxUplink -----------------------------
(***************************************************************************)
(* virtioso-muxd on the target and the demuxer on the host, joined by the  *)
(* physical link: what clients write reaches the PTYs of their streams.    *)
(***************************************************************************)
EXTENDS MuxDaemon, HostDemux

\* The demuxer has a PTY for each of the IDs the daemon can hand out: of its 257
\* three are built in, and the daemon has 253 IDs.
ASSUME CapacityAssumption == MaxPty = ByteMax + 2 /\ OuterMode = "raw"

VARIABLES
    wire,       \* bytes written to the sink that the host has not read
    accepted,   \* history: what clients wrote on each stream ID
    link        \* history: every byte written to the sink

mvars == <<dvars, vars, wire, accepted, link>>

MInit ==
    /\ DInit
    /\ Init
    /\ wire = <<>>
    /\ accepted = [i \in Byte |-> <<>>]
    /\ link = <<>>

Encode(f) ==
    CASE f.kind = "data"         -> EncodeData(f.id, f.body)
      [] f.kind = "connected"    -> EncodeControl(STREAM_CONNECTED, f.id, f.body)
      [] f.kind = "disconnected" -> EncodeControl(STREAM_DISCONNECTED, f.id, f.body)

\* A client writes.
MWrite(c, b) ==
    /\ Write(c, b)
    /\ accepted' = [accepted EXCEPT ![id[c]] = Append(@, b)]
    /\ UNCHANGED <<vars, wire, link>>

\* Everything the daemon does without touching the link.
MDaemon ==
    /\ \/ \E c \in Clients : ClientTask(c) \/ Connect(c) \/ Close(c)
       \/ SinkRecv
    /\ UNCHANGED <<vars, wire, accepted, link>>

\* write_all: the link takes a frame when the last one has been read.
MSinkWrite ==
    /\ wire = <<>>
    /\ SinkWrite
    /\ wire' = Encode(Head(inflight))
    /\ link' = link \o wire'
    /\ UNCHANGED <<vars, accepted>>

\* write_all fails after part of the frame.
MSinkFail ==
    /\ wire = <<>>
    /\ SinkFail
    /\ LET bytes == Encode(Head(inflight))
       IN  \E n \in 0..(Len(bytes) - 1) : wire' = SubSeq(bytes, 1, n)
    /\ link' = link \o wire'
    /\ UNCHANGED <<vars, accepted>>

MReceive ==
    /\ wire # <<>>
    /\ Feed(Head(wire))
    /\ wire' = Tail(wire)
    /\ UNCHANGED <<dvars, accepted, link>>

MNext ==
    \/ \E c \in Clients, b \in DataBytes : MWrite(c, b)
    \/ MDaemon
    \/ MSinkWrite
    \/ MSinkFail
    \/ MReceive

MSpec == MInit /\ [][MNext]_mvars

\* The fairness of the daemon, and a host that reads the link.
MFairness ==
    /\ \A c \in Clients :
          /\ WF_mvars(MDaemon /\ (Alloc(c) \/ Reply(c) \/ ReadData(c) \/ ReadEof(c) \/ Free(c)))
          /\ SF_mvars(MDaemon /\ (SendConnected(c) \/ SendData(c) \/ SendDisconnected(c)))
    /\ WF_mvars((MDaemon /\ SinkRecv) \/ MSinkWrite)
    /\ WF_mvars(MReceive)

MFairSpec == MSpec /\ MFairness

-----------------------------------------------------------------------------
(* Properties.                                                             *)

Channels == INSTANCE StreamChannels WITH
    Ids       <- Byte \ {0},
    Bytes     <- DataBytes,
    accepted  <- [i \in Byte \ {0} |-> accepted[i]],
    delivered <- [i \in Byte \ {0} |-> Delivered(i)]

\* The daemon, the link and the demuxer together are one FIFO channel per
\* stream ID, through a full channel, sessions that end while others begin,
\* clients that close with output unread, and a sink that fails in the middle of
\* a frame.
ImplementsChannels == Channels!CSpec

\* And every byte a client wrote gets to the PTY, unless the sink fails.
DeliversWhileSinkWorks == []sink => Channels!Delivers

\* No output of a client is printed as unframed output, because its stream was
\* announced, and had a PTY, before its first byte; and the demuxer goes on.
NothingUnframed ==
    /\ alive
    /\ out[PHYSICAL_UART_DEFAULT] = <<>>
    /\ out[AUTOPILOT_CONTROL] = <<>>

\* raw_ccplex holds every byte of a raw link, in order, whatever the parser
\* makes of it and wherever the sink broke off: it is the record of the link that
\* is left when a stream is misrouted.  (It is not one in nvidia-tcu mode: a
\* payload byte 0xff is parsed and not mirrored.)
RawMirrorIsComplete == alive => link = out[RAW_CCPLEX] \o wire

\* "virtioso-mux responds by creating a new PTY for stream_id with the given
\* name" (docs/virtioso-mux-wire-protocol.md): what a client writes is read
\* under the name it enrolled with.
PtyHasSessionName ==
    \A c \in Clients :
        (pc[c] \in {"read", "data"} /\ chan = <<>> /\ inflight = <<>> /\ wire = <<>>
            /\ sink /\ id[c] # 0) =>
            \E p \in Registered : tags[p].value = id[c] /\ tags[p].name = name[c]
=============================================================================
