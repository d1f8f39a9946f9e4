------------------------------- MODULE VCMux -------------------------------
(***************************************************************************)
(* The vocabulary of the Virtual Channel Mux (VCMux) wire protocol and the *)
(* encoders of its records (host/uart-proto.h, linux/virtioso-mux-proto).  *)
(*                                                                         *)
(* Bytes are numbers of a scaled alphabet 0..ByteMax; the code has         *)
(* ByteMax = 255.  The reserved bytes keep their place at the two ends of  *)
(* the alphabet: 0x00 first, 0xfd, 0xfe and 0xff the last three.           *)
(***************************************************************************)
EXTENDS Integers, Sequences, SequencesExt, SubSequences

CONSTANT ByteMax

\* At least one byte is left for a stream ID.
ASSUME ByteMaxAssumption == ByteMax \in Nat /\ ByteMax >= 3

Byte == 0..ByteMax

\* VCMUX_PROTO_ESC_*
DEFAULT == 0
CONTROL == ByteMax - 2
ESC     == ByteMax - 1

\* UART_PROTO_ESC_*, the NVIDIA outer layer
OUTER_ESC   == ByteMax
OUTER_RESET == ByteMax - 2

\* VCMUX_PROTO_CONTROL_*
STREAM_CONNECTED    == 1
STREAM_REGISTRY     == 2
DOWNLINK_ACK        == 3
STREAM_DISCONNECTED == 4

\* The stream IDs append_virtioso_stream and console_mux_valid_stream_id accept.
ValidStreamId == (1..ByteMax) \ {CONTROL, ESC}

\* Both length bytes of a control record.
LenBytes(n) == << n \div (ByteMax + 1), n % (ByteMax + 1) >>

\* Payload with every escape byte doubled.
EscapePayload(payload) ==
    FlattenSeq([i \in DOMAIN payload |->
                    IF payload[i] = ESC THEN <<ESC, ESC>> ELSE <<payload[i]>>])

EncodeData(id, payload) ==
    <<ESC, id>> \o EscapePayload(payload) \o <<ESC, DEFAULT>>

\* The same layout carries CONNECTED and DISCONNECTED: both have the name.
EncodeControl(type, id, name) ==
    <<ESC, CONTROL, type>> \o LenBytes(1 + Len(name)) \o <<id>> \o name

EncodeRegistry(text) ==
    <<ESC, CONTROL, STREAM_REGISTRY>> \o LenBytes(Len(text)) \o text

EncodeAck == <<ESC, CONTROL, DOWNLINK_ACK>>

(***************************************************************************)
(* The registry text.  Its JSON is abstracted to three symbols per stream  *)
(* object: the stream ID (0 stands for the "stream_id": -1 of a component  *)
(* without a stream), the component name and the direction.  Anything that *)
(* is not a whole number of objects is malformed.                          *)
(***************************************************************************)
RegistryText(streams) ==
    FlattenSeq([i \in DOMAIN streams |->
                    << IF streams[i].id < 0 THEN 0 ELSE streams[i].id,
                       streams[i].name[1],
                       IF streams[i].input THEN 1 ELSE 0 >>])

WellFormedRegistry(text) == Len(text) % 3 = 0

RegistryStreams(text) ==
    [i \in 1..(Len(text) \div 3) |->
        [ id    |-> IF text[3*i - 2] = 0 THEN -1 ELSE text[3*i - 2],
          name  |-> << text[3*i - 1] >>,
          input |-> text[3*i] = 1 ]]
=============================================================================
