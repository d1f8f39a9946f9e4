----------------------------- MODULE ConsoleMux -----------------------------
(***************************************************************************)
(* The CAmkES Mux component (sel4/Mux/src/console_mux.c).  Components call *)
(* mux_batch to have their output framed and put on the UART; the UART     *)
(* interrupt parses what the host sends and fills the receive ring of the  *)
(* addressed stream.                                                       *)
(*                                                                         *)
(* The thread of the mux_batch interface and the thread of the UART        *)
(* interrupt run concurrently and take no lock: both put bytes on the UART *)
(* one at a time, and the receiver of a ring runs in another component.    *)
(***************************************************************************)
EXTENDS VCMux, FiniteSets

CONSTANTS
    MuxClients,   \* components connected to mux_batch
    RegistryJson, \* virtioso_camkes_stream_registry_json
    FrameSize,    \* sizeof(console_mux_frame), 4088
    DemuxSinks,   \* the stream_ids of virtioso_camkes_demux_sinks
    RingSize,     \* sizeof(rx->buf), 4088
    NoClient

ASSUME MuxAssumption ==
    /\ RegistryJson \in Seq(Byte)
    /\ FrameSize \in Nat /\ FrameSize > 6
    /\ DemuxSinks \subseteq ValidStreamId
    /\ RingSize \in Nat /\ RingSize > 1
    /\ NoClient \notin MuxClients

VARIABLES
    \* shared with the clients
    batch,            \* stream_id, and staged: the bytes from head to tail
    calls,            \* clients that are inside mux_batch_batch
    \* the mux_batch thread
    serving,          \* the client whose call it runs
    frames,           \* what it still passes to console_mux_uplink_bytes
    registry_emitted, \* console_mux_registry_emitted
    \* the interrupt thread
    rx_stream,        \* console_mux_rx_stream
    rx_escape,        \* console_mux_rx_escape
    storing,          \* the ring whose tail it is about to publish, in a set
    ack,              \* bytes of an acknowledgement it still has to put
    \* shared with the receivers
    ring,             \* head, tail and buf of each receive ring
    notified,         \* rings with a pending notification (sink->emit)
    awake,            \* receivers that are draining their ring
    stored,           \* history: what was published in each ring
    received,         \* history: what each receiver took from its ring
    \* the UART
    uart_tx,
    uart_rx

uplinkThread   == <<batch, calls, serving, frames, registry_emitted>>
downlinkThread == <<rx_stream, rx_escape, storing, ack>>
receivers      == <<ring, notified, awake, stored, received>>
cmvars == <<uplinkThread, downlinkThread, receivers, uart_tx, uart_rx>>

RingIdx == 0..(RingSize - 1)

CMTypeOK ==
    /\ batch \in [MuxClients -> [stream_id: Byte, staged: Seq(Byte)]]
    /\ calls \subseteq MuxClients
    /\ serving \in calls \cup {NoClient}
    /\ frames \in Seq(Seq(Byte))
    /\ registry_emitted \in BOOLEAN
    /\ rx_stream \in DemuxSinks \cup {-1}
    /\ rx_escape \in BOOLEAN
    /\ storing \subseteq DemuxSinks
    /\ ack \in Seq(Byte)
    /\ ring \in [DemuxSinks -> [head: RingIdx, tail: RingIdx, buf: [RingIdx -> Byte]]]
    /\ notified \subseteq DemuxSinks
    /\ awake \subseteq DemuxSinks
    /\ stored \in [DemuxSinks -> Seq(Byte)]
    /\ received \in [DemuxSinks -> Seq(Byte)]
    /\ uart_tx \in Seq(Byte)
    /\ uart_rx \in Seq(Byte)

CMInit ==
    /\ batch = [c \in MuxClients |-> [stream_id |-> 0, staged |-> <<>>]]
    /\ calls = {}
    /\ serving = NoClient
    /\ frames = <<>>
    /\ registry_emitted = FALSE
    /\ rx_stream = -1
    /\ rx_escape = FALSE
    /\ storing = {}
    /\ ack = <<>>
    /\ ring = [s \in DemuxSinks |->
                  [head |-> 0, tail |-> 0, buf |-> [i \in RingIdx |-> 0]]]
    /\ notified = {}
    /\ awake = {}
    /\ stored = [s \in DemuxSinks |-> <<>>]
    /\ received = [s \in DemuxSinks |-> <<>>]
    /\ uart_tx = <<>>
    /\ uart_rx = <<>>

-----------------------------------------------------------------------------
(* Uplink: the mux_batch thread.                                           *)

RegistryFitsDoubled == 2 * Len(RegistryJson) + 5 <= FrameSize
\* The registry is not sent at all when it does not fit the frame buffer.
RegistryFits ==
    /\ Len(RegistryJson) < (ByteMax + 1) * (ByteMax + 1)
    /\ Len(RegistryJson) + 5 <= FrameSize

\* maybe_emit_registry: before the first frame.
RegistryFrames ==
    IF ~registry_emitted /\ RegistryFits THEN <<EncodeRegistry(RegistryJson)>> ELSE <<>>

\* The frame buffer, with out bytes in it, might not take another byte and the
\* end of the frame.
FrameFullTooLate(out) == out >= FrameSize
FrameFull(out) == out + 4 >= FrameSize

AddByteOrFlush(stream_id, acc, byte) ==
    IF FrameFull(Len(Last(acc))) THEN Append(acc, <<ESC, stream_id>>)
    ELSE [acc EXCEPT ![Len(acc)] = @ \o EscapePayload(<<byte>>)]
\* One payload byte: it goes to the last frame, or to a new one when that is full.
AddByte(stream_id, acc, byte) ==
    LET full == FrameFull(Len(Last(acc)))
        fs   == IF full THEN Append(acc, <<ESC, stream_id>>) ELSE acc
    IN  [fs EXCEPT ![Len(fs)] = @ \o EscapePayload(<<byte>>)]

\* The end of the payload goes to the last frame, or on its own when that is full.
AddEnd(fs) ==
    IF Len(Last(fs)) + 2 >= FrameSize
    THEN Append(fs, <<ESC, DEFAULT>>)
    ELSE [fs EXCEPT ![Len(fs)] = @ \o <<ESC, DEFAULT>>]

\* emit_framed_payload: the frames a payload is split into.
PayloadFrames(stream_id, bytes) ==
    AddEnd(FoldLeft(LAMBDA acc, byte : AddByte(stream_id, acc, byte),
                    << <<ESC, stream_id>> >>, bytes))

\* What mux_batch_batch requires of the client's buffer.
Accepted(b) == b.stream_id \in ValidStreamId /\ b.staged # <<>>

\* mux_batch_batch: the thread takes a call; it ignores one it does not accept.
MuxBatch(c) ==
    /\ serving = NoClient
    /\ c \in calls
    /\ LET b == batch[c]
       IN  \/ /\ Accepted(b)
              /\ serving' = c
              /\ frames' = RegistryFrames \o PayloadFrames(b.stream_id, b.staged)
              /\ registry_emitted' = TRUE
              /\ UNCHANGED calls
           \/ /\ ~Accepted(b)
              /\ calls' = calls \ {c}
              /\ UNCHANGED <<serving, frames, registry_emitted>>
    /\ UNCHANGED <<batch, downlinkThread, receivers, uart_tx, uart_rx>>

\* console_mux_uplink_bytes: one byte of the frame at hand.
PutUplink ==
    /\ frames # <<>>
    /\ uart_tx' = Append(uart_tx, Head(Head(frames)))
    /\ frames' = IF Len(Head(frames)) = 1 THEN Tail(frames)
                 ELSE <<Tail(Head(frames))>> \o Tail(frames)
    /\ UNCHANGED <<batch, calls, serving, registry_emitted, downlinkThread, receivers, uart_rx>>

\* The call returns; the client's buffer is consumed.
MuxReturn ==
    /\ serving # NoClient
    /\ frames = <<>>
    /\ batch' = [batch EXCEPT ![serving].staged = <<>>]
    /\ calls' = calls \ {serving}
    /\ serving' = NoClient
    /\ UNCHANGED <<frames, registry_emitted, downlinkThread, receivers, uart_tx, uart_rx>>

-----------------------------------------------------------------------------
(* Downlink: the interrupt thread.                                         *)

IrqIdle == storing = {} /\ ack = <<>>

NextTailNoWrap(r) == r.tail + 1
NextTail(r) == (r.tail + 1) % RingSize

RingFullNever(r) == FALSE
RingFull(r) == NextTail(r) = r.head

\* enqueue_stream_byte, up to its first barrier: a full ring loses the byte.
StoreByte(s, byte) ==
    \/ /\ ~RingFull(ring[s])
       /\ ring' = [ring EXCEPT ![s].buf[ring[s].tail] = byte]
       /\ storing' = {s}
    \/ /\ RingFull(ring[s])
       /\ UNCHANGED <<ring, storing>>

\* After the barrier: the byte becomes visible to the receiver.
PublishByte ==
    /\ \E s \in storing :
          /\ ring' = [ring EXCEPT ![s].tail = NextTail(ring[s])]
          /\ stored' = [stored EXCEPT ![s] = Append(@, ring[s].buf[ring[s].tail])]
    /\ storing' = {}
    /\ UNCHANGED <<uplinkThread, rx_stream, rx_escape, ack, notified, awake, received,
                   uart_tx, uart_rx>>

\* emit_stream_ready
NotifyNobody == UNCHANGED notified
Notify == notified' = notified \cup ({rx_stream} \cap DemuxSinks)

DownlinkDefaultKeepsStream(byte) ==
    /\ rx_escape /\ byte = DEFAULT
    /\ rx_escape' = FALSE
    /\ Notify
    /\ ack' = IF rx_stream \in ValidStreamId THEN EncodeAck ELSE <<>>
    /\ UNCHANGED <<rx_stream, storing, ring>>

\* 0xfe 0x00: the frame is complete; tell the receiver and the host.
DownlinkDefault(byte) ==
    /\ rx_escape /\ byte = DEFAULT
    /\ rx_escape' = FALSE
    /\ Notify
    /\ ack' = IF rx_stream \in ValidStreamId THEN EncodeAck ELSE <<>>
    /\ rx_stream' = -1
    /\ UNCHANGED <<storing, ring>>

\* 0xfe 0xfe: a literal 0xfe.
DownlinkEscape(byte) ==
    /\ rx_escape /\ byte = ESC
    /\ rx_escape' = FALSE
    /\ \/ rx_stream >= 0 /\ StoreByte(rx_stream, byte)
       \/ rx_stream < 0 /\ UNCHANGED <<ring, storing>>
    /\ UNCHANGED <<rx_stream, ack, notified>>

\* 0xfe S: S becomes the current stream if there is a ring for it.  A control
\* record (0xfe 0xfd) has no ring: its bytes are skipped.
DownlinkStream(byte) ==
    /\ rx_escape /\ byte \notin {DEFAULT, ESC}
    /\ rx_escape' = FALSE
    /\ Notify
    /\ rx_stream' = IF byte \in DemuxSinks THEN byte ELSE -1
    /\ UNCHANGED <<storing, ring, ack>>

DownlinkEscapeStart(byte) ==
    /\ ~rx_escape /\ byte = ESC
    /\ rx_escape' = TRUE
    /\ UNCHANGED <<rx_stream, storing, ring, ack, notified>>

DownlinkPayload(byte) ==
    /\ ~rx_escape /\ byte # ESC
    /\ \/ rx_stream >= 0 /\ StoreByte(rx_stream, byte)
       \/ rx_stream < 0 /\ UNCHANGED <<ring, storing>>
    /\ UNCHANGED <<rx_stream, rx_escape, ack, notified>>

\* drain_uart: one byte.
FeedDownlinkByte ==
    /\ IrqIdle
    /\ uart_rx # <<>>
    /\ LET byte == Head(uart_rx)
       IN  \/ DownlinkDefault(byte)
           \/ DownlinkEscape(byte)
           \/ DownlinkStream(byte)
           \/ DownlinkEscapeStart(byte)
           \/ DownlinkPayload(byte)
    /\ uart_rx' = Tail(uart_rx)
    /\ UNCHANGED <<uplinkThread, awake, stored, received, uart_tx>>

\* emit_downlink_ack: one byte.
PutAck ==
    /\ ack # <<>>
    /\ uart_tx' = Append(uart_tx, Head(ack))
    /\ ack' = Tail(ack)
    /\ UNCHANGED <<uplinkThread, rx_stream, rx_escape, storing, receivers, uart_rx>>

-----------------------------------------------------------------------------
(* The receiver of a ring, in the component the stream belongs to: it      *)
(* drains its ring whenever it is notified.                                *)

Wake(s) ==
    /\ s \in notified \ awake
    /\ notified' = notified \ {s}
    /\ awake' = awake \cup {s}
    /\ UNCHANGED <<uplinkThread, downlinkThread, ring, stored, received, uart_tx, uart_rx>>

TakeByte(s) ==
    /\ s \in awake
    /\ ring[s].head # ring[s].tail
    /\ received' = [received EXCEPT ![s] = Append(@, ring[s].buf[ring[s].head])]
    /\ ring' = [ring EXCEPT ![s].head = (@ + 1) % RingSize]
    /\ UNCHANGED <<uplinkThread, downlinkThread, notified, awake, stored, uart_tx, uart_rx>>

Sleep(s) ==
    /\ s \in awake
    /\ ring[s].head = ring[s].tail
    /\ awake' = awake \ {s}
    /\ UNCHANGED <<uplinkThread, downlinkThread, ring, notified, stored, received,
                   uart_tx, uart_rx>>

Receiver(s) == Wake(s) \/ TakeByte(s) \/ Sleep(s)

UplinkThread == PutUplink \/ MuxReturn \/ \E c \in MuxClients : MuxBatch(c)

IrqThread == FeedDownlinkByte \/ PublishByte \/ PutAck

-----------------------------------------------------------------------------
(* Properties.                                                             *)

\* No frame is longer than the buffer it is built in, whatever the payload and
\* however many of its bytes are doubled: the only bound on out in
\* emit_framed_payload is the test before each byte.
FramesFit == \A k \in DOMAIN frames : Len(frames[k]) <= FrameSize

\* The bytes in a ring, oldest first.
Contents(r) ==
    [k \in 1..((r.tail - r.head + RingSize) % RingSize) |->
        r.buf[(r.head + k - 1) % RingSize]]

\* A ring is a FIFO queue, around its end and at its limit, with the interrupt
\* thread and the receiver at work at the same time: no published byte is lost
\* or overwritten before it is taken.
RingIsFifo == \A s \in DemuxSinks : stored[s] = received[s] \o Contents(ring[s])
=============================================================================
