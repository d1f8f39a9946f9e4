----------------------------- MODULE HostUplink -----------------------------
(***************************************************************************)
(* The host demuxer behind a physical link.  A target puts whole records   *)
(* on the link; the demuxer consumes it byte by byte.  In nvidia-tcu mode  *)
(* the target's bytes travel inside the outer layer, and the firmware may  *)
(* switch to another chip tag, print, and switch back between any two of   *)
(* them.  The target may restart inside a record, and the tty device may   *)
(* hang up and be reopened, with the bytes of that time lost.              *)
(*                                                                         *)
(* Meaning gives records the sense the wire protocol gives them, one       *)
(* record at a time and without a parser.                                  *)
(***************************************************************************)
EXTENDS HostDemux

CONSTANTS
    Scripts,    \* the series of records a target may send
    MaxEvents   \* bound: interruptions, restarts, hangups and failures together

ASSUME BoundsAssumption == MaxEvents \in Nat

VARIABLES
    wire,       \* bytes on the link, in order
    sent,       \* records sent so far
    noise,      \* interruptions by another chip so far
    losses,     \* restarts and hangups so far
    faulted,    \* history: a call of the operating system has failed
    start       \* history: what the parser was doing when the last record was
                \* sent ("rest", "idle" or "busy"), or "lost" when part of it was

uvars == <<vars, wire, sent, noise, losses, faulted, start>>

Quiet == noise + losses + (IF faulted THEN 1 ELSE 0) < MaxEvents

\* The demuxer without failing calls.
FaultFree == INSTANCE HostDemux WITH Faults <- {}

\* The bytes of a record.
EncodeFrame(f) ==
    CASE f.kind = "data"         -> EncodeData(f.id, f.payload)
      [] f.kind = "connected"    -> EncodeControl(STREAM_CONNECTED, f.id, f.name)
      [] f.kind = "disconnected" -> EncodeControl(STREAM_DISCONNECTED, f.id, f.name)
      [] f.kind = "registry"     -> EncodeRegistry(f.text)
      [] f.kind = "ack"          -> EncodeAck
      [] f.kind = "plain"        -> f.payload

\* Text for which the two length bytes suffice, with n bytes in front of it
Texts(n) == {s \in Seq(Byte) : n + Len(s) < (ByteMax + 1) * (ByteMax + 1)}

\* What a target sends: data of streams that framing can select, control records,
\* and unframed output, which has no escape bytes.
Record ==
    [kind: {"data"}, id: ValidStreamId, payload: Seq(Byte)]
        \cup [kind: {"connected", "disconnected"}, id: Byte, name: Texts(1)]
        \cup [kind: {"registry"}, text: Texts(0)]
        \cup [kind: {"ack"}]
        \cup [kind: {"plain"}, payload: Seq(Byte \ {ESC})]

ASSUME ScriptsAssumption == Scripts \subseteq Seq(Record)

\* The outer layer: 0xff is doubled.
EncodeOuter(bytes) ==
    IF OuterMode = "raw" THEN bytes
    ELSE FlattenSeq([i \in DOMAIN bytes |->
                        IF bytes[i] = OUTER_ESC THEN <<OUTER_ESC, OUTER_ESC>>
                                                ELSE <<bytes[i]>>])

\* Nothing is on the link but, in nvidia-tcu mode, the selection of the chip tag.
LinkInit ==
    /\ wire = IF OuterMode = "raw" THEN <<>> ELSE <<OUTER_ESC, OuterTag>>
    /\ sent = <<>>
    /\ noise = 0
    /\ losses = 0
    /\ faulted = FALSE
    /\ start = "rest"

\* The outer layer passes bytes on to the parser, which is outside control
\* records, or, at rest, outside frames as well.
OuterOpen  == OuterMode = "raw" \/ (~outer_in_escape /\ cur_outer_tag = OuterTag)
ParserRest == control_state = "IDLE" /\ ~in_escape /\ cur_rx_stream = NoStream

\* The next record of a script.
Send(script) ==
    /\ wire = <<>>
    /\ Len(sent) < Len(script) /\ IsPrefix(sent, script)
    /\ wire' = EncodeOuter(EncodeFrame(script[Len(sent) + 1]))
    /\ sent' = Append(sent, script[Len(sent) + 1])
    /\ start' = CASE OuterOpen /\ ParserRest             -> "rest"
                  [] OuterOpen /\ control_state = "IDLE" /\ ~ParserRest -> "idle"
                  [] OTHER                               -> "busy"
    /\ UNCHANGED <<vars, noise, losses, faulted>>

OtherChip(tag, ch) ==
    /\ OuterMode = "nvidia-tcu"
    /\ Quiet
    /\ wire # <<>> /\ OuterOpen
    /\ wire' = <<OUTER_ESC, tag, ch, OUTER_ESC, OuterTag>> \o wire
    /\ noise' = noise + 1
    /\ UNCHANGED <<vars, sent, losses, faulted, start>>

\* The target restarts: the rest of its record is never sent, a reset is.
TargetReset ==
    /\ OuterMode = "nvidia-tcu"
    /\ Quiet
    /\ wire # <<>> /\ OuterOpen
    /\ wire' = <<OUTER_ESC, OUTER_RESET, OUTER_ESC, OuterTag>>
    /\ losses' = losses + 1
    /\ start' = "lost"
    /\ UNCHANGED <<vars, sent, noise, faulted>>

\* POLLHUP: the device is closed and opened again.  What arrives meanwhile is
\* lost; the parser goes on where it was.
Hangup ==
    /\ alive
    /\ Quiet
    /\ \E n \in 1..Len(wire) : wire' = SubSeq(wire, n + 1, Len(wire))
    /\ losses' = losses + 1
    /\ start' = "lost"
    /\ UNCHANGED <<vars, sent, noise, faulted>>

\* The device cannot be opened again, or a read or the raw log fails.
TtyFails ==
    /\ alive
    /\ Quiet
    /\ "tty" \in Faults
    /\ alive' = FALSE
    /\ faulted' = TRUE
    /\ UNCHANGED <<outer, parser, control, virtioso_registry_json, table,
                   downlink_ack_count, out, wire, sent, noise, losses, start>>

Receive ==
    /\ wire # <<>>
    /\ Feed(Head(wire))
    /\ wire' = Tail(wire)
    /\ faulted' = (faulted \/ ~FaultFree!Feed(Head(wire)))
    /\ faulted' # faulted => Quiet
    /\ UNCHANGED <<sent, noise, losses, start>>

UNext ==
    \/ \E script \in Scripts : Send(script)
    \/ \E tag \in ChipTags \ {OuterTag}, ch \in {0, ESC} : OtherChip(tag, ch)
    \/ TargetReset
    \/ Hangup
    \/ TtyFails
    \/ Receive

-----------------------------------------------------------------------------
(* What the records mean.  m is the abstract state of the host: the        *)
(* streams it knows beyond the built-in ones, what each stream has been    *)
(* given, the acknowledgements, and whether it still listens.              *)

Nothing ==
    [streams |-> <<>>, got |-> [i \in PtyIdx |-> <<>>], acks |-> 0,
     registry |-> FALSE, dead |-> FALSE]

IdsOf(m)     == {m.streams[k].id : k \in DOMAIN m.streams}
NamesOf(m)   == {m.streams[k].name : k \in DOMAIN m.streams} \cup {<<0>>, <<1>>, <<2>>}
PtyFor(m, id) == BuiltinCount - 1 + (CHOOSE k \in DOMAIN m.streams : m.streams[k].id = id)
Room(m, n)   == Len(m.streams) + n <= MaxPty - BuiltinCount

Give(m, i, bytes) == [m EXCEPT !.got[i] = @ \o bytes]

\* A payload without its escape bytes
Unescaped(s) == FlattenSeq([k \in DOMAIN s |-> IF s[k] = ESC THEN <<>> ELSE <<s[k]>>])

\* Data of a known stream is its payload; of an unknown stream, unframed output
\* without its escape bytes.
MeaningOfData(m, f) ==
    IF f.id \in IdsOf(m) THEN Give(m, PtyFor(m, f.id), f.payload)
    ELSE Give(m, PHYSICAL_UART_DEFAULT, Unescaped(f.payload))

MeaningOfConnected(m, f) ==
    IF f.id \in IdsOf(m) \cup {0} \/ ~Room(m, 1) THEN m
    ELSE [m EXCEPT !.streams =
                Append(@, [id |-> f.id, name |-> f.name, input |-> FALSE])]

MeaningOfRegistry(m, f) ==
    LET new  == ListedStreams(f.text)
        good == /\ Len(f.text) % 3 = 0
                /\ new # <<>>
                /\ Room(m, Len(new))
                /\ \A k \in DOMAIN new : new[k].id \in ValidStreamId \ IdsOf(m)
                /\ \A k \in DOMAIN new : new[k].name \notin NamesOf(m)
                /\ \A j, k \in DOMAIN new : j # k => /\ new[j].id # new[k].id
                                                     /\ new[j].name # new[k].name
    IN  IF f.text = <<>> \/ m.registry THEN m
        ELSE IF good THEN [m EXCEPT !.streams = @ \o new, !.registry = TRUE]
        ELSE [m EXCEPT !.dead = TRUE]

Meaning(m, f) ==
    IF m.dead THEN m ELSE
    CASE f.kind = "data"         -> MeaningOfData(m, f)
      [] f.kind = "connected"    -> MeaningOfConnected(m, f)
      [] f.kind = "disconnected" -> m
      [] f.kind = "registry"     -> MeaningOfRegistry(m, f)
      [] f.kind = "ack"          -> [m EXCEPT !.acks = @ + 1]
      [] f.kind = "plain"        -> Give(m, PHYSICAL_UART_DEFAULT, f.payload)

\* Whenever the link is drained, the byte-by-byte parser has done what the
\* records mean: streams, IDs, names, order and content of every stream's
\* output, acknowledgements, and the end of the thread on a bad registry.  No
\* payload byte is lost, duplicated, or taken for framing, whatever its value
\* and wherever other chips interrupt.
DecodesRecords ==
    LET m == FoldLeft(Meaning, Nothing, sent)
    IN  losses = 0 /\ ~faulted =>
        /\ ~alive => m.dead
        /\ (wire = <<>> /\ alive) =>
               /\ ~m.dead
               /\ num_proc = BuiltinCount + Len(m.streams)
               /\ \A k \in DOMAIN m.streams :
                     tags[BuiltinCount + k - 1] = NewTag(m.streams[k])
               /\ \A i \in PtyIdx \ {RAW_CCPLEX} : out[i] = m.got[i]
               /\ downlink_ack_count = m.acks
               /\ ParserRest

\* The damage of a hangup or a restart ends with the record it falls in, a
\* control record that swallows the bytes of the next ones, and one data frame:
\* whatever is in the parser, a data frame that begins outside a control record
\* leaves the parser at rest, and one that begins at rest is delivered whole.
ResyncsAfterLoss ==
    LET f == Last(sent)
    IN  (/\ wire = <<>> /\ alive /\ start \in {"rest", "idle"}
         /\ sent # <<>> /\ f.kind = "data") =>
            /\ ParserRest
            /\ (start = "rest" /\ StreamPtys(f.id) # {}) =>
                   IsSuffix(f.payload, Delivered(f.id))
=============================================================================
