------------------------------ MODULE SeL4Link ------------------------------
(***************************************************************************)
(* Both ends of the link of a seL4 target: GuestSinks and the Mux on the   *)
(* target, the demuxer and its PTY threads on the host, and the UART       *)
(* between them in both directions.                                        *)
(***************************************************************************)
EXTENDS GuestSink, HostDownlink

CONSTANTS
    PutBytes,   \* bytes a guest may print
    TypeBytes,  \* bytes a user may type
    TypeInto,   \* PTYs users type into
    MaxPut,     \* bound: bytes a guest prints
    MaxTyped,   \* bound: bytes typed into a PTY
    MaxReopens, \* bound: how often the tty device is reopened
    LinkCap     \* bound: bytes in flight to the host

ASSUME LinkAssumption ==
    /\ OuterMode = "raw"
    /\ PutBytes \subseteq Byte /\ TypeBytes \subseteq Byte /\ TypeInto \subseteq PtyIdx
    /\ {MaxPut, MaxTyped, MaxReopens} \subseteq Nat /\ LinkCap \in Nat \ {0}

VARIABLES
    put,       \* history: what each guest printed
    keyed,     \* history: what was typed into each PTY
    reopens

history == <<put, keyed, reopens>>
lvars == <<gsvars, vars, hdvars, history>>

LInit ==
    /\ GSInit
    /\ Init
    /\ HDInit
    /\ put = [c \in MuxClients |-> <<>>]
    /\ keyed = [i \in PtyIdx |-> <<>>]
    /\ reopens = 0

GuestPrints(c, b) ==
    /\ Len(put[c]) < MaxPut
    /\ Putchar(c, b)
    /\ put' = [put EXCEPT ![c] = Append(@, b)]
    /\ UNCHANGED <<vars, hdvars, keyed, reopens>>

SinkReturns(c) ==
    /\ FlushDone(c)
    /\ UNCHANGED <<vars, hdvars, history>>

\* The UART has room for another byte.
LinkRoom == Len(uart_tx) < LinkCap

MuxUplinkStep ==
    /\ UplinkThread
    /\ frames # <<>> => LinkRoom
    /\ UNCHANGED <<flushing, vars, hdvars, history>>

MuxIrqStep ==
    /\ IrqThread
    /\ ack # <<>> => LinkRoom
    /\ UNCHANGED <<flushing, vars, hdvars, history>>

ReceiverStep(s) ==
    /\ Receiver(s)
    /\ UNCHANGED <<flushing, vars, hdvars, history>>

\* The host reads a byte of the uplink, unless its thread is reopening the device.
HostReceives ==
    /\ uart_tx # <<>>
    /\ greeting = <<>>
    /\ Feed(Head(uart_tx))
    /\ uart_tx' = Tail(uart_tx)
    /\ UNCHANGED <<uplinkThread, downlinkThread, receivers, uart_rx, flushing, hdvars, history>>

\* A user types into a PTY.
UserTypes(i, b) ==
    /\ Len(keyed[i]) < MaxTyped
    /\ Type(i, b)
    /\ keyed' = [keyed EXCEPT ![i] = Append(@, b)]
    /\ UNCHANGED <<gsvars, put, reopens>>

HostWrites(i) ==
    /\ PtyThread(i)
    /\ UNCHANGED <<gsvars, history>>

HostReopens ==
    /\ \/ /\ reopens < MaxReopens
          /\ ReopenTty
          /\ reopens' = reopens + 1
       \/ PutGreeting /\ UNCHANGED reopens
    /\ UNCHANGED <<gsvars, put, keyed>>

\* The UART carries what the host wrote, byte by byte.
LinkDown ==
    /\ tty # <<>> /\ uart_rx = <<>>
    /\ uart_rx' = <<Head(tty)>>
    /\ tty' = Tail(tty)
    /\ UNCHANGED <<uplinkThread, downlinkThread, receivers, uart_tx, flushing, vars,
                   typed, buf, write_lock, greeting, cut, history>>

LNext ==
    \/ \E c \in MuxClients, b \in PutBytes : GuestPrints(c, b)
    \/ \E c \in MuxClients : SinkReturns(c)
    \/ MuxUplinkStep
    \/ MuxIrqStep
    \/ \E s \in DemuxSinks : ReceiverStep(s)
    \/ HostReceives
    \/ \E i \in TypeInto, b \in TypeBytes : UserTypes(i, b)
    \/ \E i \in PtyIdx : HostWrites(i)
    \/ HostReopens
    \/ LinkDown

LSpec == LInit /\ [][LNext]_lvars

\* Every thread of target and host runs, and the mutex is handed to a thread
\* that keeps asking for it.  Nothing is assumed of guests and users.
LFairness ==
    /\ WF_lvars(MuxUplinkStep) /\ WF_lvars(MuxIrqStep)
    /\ WF_lvars(HostReceives) /\ WF_lvars(LinkDown)
    /\ \A c \in MuxClients : WF_lvars(SinkReturns(c))
    /\ \A s \in DemuxSinks : WF_lvars(ReceiverStep(s))
    /\ \A i \in TypeInto : SF_lvars(HostWrites(i))

LFairSpec == LSpec /\ LFairness

-----------------------------------------------------------------------------
(* Properties.                                                             *)

\* The streams clients print on; a component may have none.
StreamIds == {StreamOf[c] : c \in MuxClients} \cap ValidStreamId

Printed(id) == put[CHOOSE c \in MuxClients : StreamOf[c] = id]

UplinkChannels == INSTANCE StreamChannels WITH
    Ids       <- StreamIds,
    Bytes     <- PutBytes,
    accepted  <- [i \in StreamIds |-> Printed(i)],
    delivered <- [i \in StreamIds |-> Delivered(i)]

\* From a guest's putchar to the PTY of its stream, batching, splitting into
\* frames, escaping, the registry and the host's parser make one FIFO channel
\* per stream.
ImplementsUplink == UplinkChannels!CSpec

\* What was typed into the PTY of a stream.
TypedFor(id) ==
    IF StreamPtys(id) = {} THEN <<>> ELSE keyed[CHOOSE p \in StreamPtys(id) : TRUE]

DownlinkChannels == INSTANCE StreamChannels WITH
    Ids       <- DemuxSinks,
    Bytes     <- TypeBytes,
    accepted  <- [s \in DemuxSinks |-> TypedFor(s)],
    delivered <- received

\* From a key press to the receiver of the stream, the PTY threads, the lock,
\* fragments, the interrupt thread and the rings make one FIFO channel per
\* stream, which delivers every byte as long as the ring is not full.
ImplementsDownlink == DownlinkChannels!CFairSpec

\* "ConsoleMux demuxes incoming UART bytes and delivers them to the correct
\* component" (docs/virtual-channel-mux-architecture.md): a receiver gets, in
\* order, bytes that were typed into the PTY of its stream and nothing else,
\* whatever is lost to full rings, timeouts of the link or a reopened device.
OnlyTyped == \A s \in DemuxSinks : IsSubSeqOf(received[s], TypedFor(s))

\* The same as far as the code keeps it: nobody used the raw UART and no write
\* was short.  Timeouts, failed drains, a device reopened at any moment and full
\* rings lose bytes, but none is delivered twice, made up or sent elsewhere.
OnlyTypedUnlessCut ==
    (~cut /\ \A i \in Physical : keyed[i] = <<>>) => OnlyTyped

\* Output is never ahead of the registry: once a frame is through, the host has
\* the registry.  It holds as long as the registry fits the frame buffer.
RegistryFirst ==
    (registry_emitted /\ frames = <<>> /\ uart_tx = <<>> /\ ack = <<>>) =>
        virtioso_registry_json = RegistryJson

\* What is on a PTY was printed by the guest of its stream, from its beginning.
UplinkIntact ==
    \A i \in StreamIds : IsPrefix(Delivered(i), Printed(i))
=============================================================================
