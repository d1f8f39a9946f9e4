------------------------------ MODULE TcuLink ------------------------------
(***************************************************************************)
(* A target without Mux on an NVIDIA TCU link: the sink of the first       *)
(* processor prints on its serial device, which is that processor's client *)
(* of the TCU; other processors print for themselves; the host demuxer     *)
(* runs without -A.  The TCU and the chip's receivers are firmware.        *)
(***************************************************************************)
EXTENDS RawSinks, TcuHost

CONSTANTS
    OtherBytes, \* bytes other processors print
    TypeBytes,  \* bytes users type
    UnknownTag, \* of a client that the host does not know
    Batches,    \* contents of the batch buffer when its client calls
    MaxEvents   \* bound: bytes and batches printed, bytes typed, restarts

ASSUME TcuLinkAssumption ==
    /\ NewLine = LF /\ Return = CR
    /\ PrintBytes \cup OtherBytes \cup TypeBytes \subseteq Byte
    /\ Batches \subseteq [head: Nat, tail: Nat, buf: [1..BufSize -> PrintBytes]]
    /\ UnknownTag \in Byte \ ({OUTER_ESC, OUTER_RESET} \cup Range(ChipTags))
    /\ MaxEvents \in Nat

VARIABLES
    wire,    \* bytes on their way to the host
    tcu_tag, \* the client the TCU sent last, -1 after a restart
    taken,   \* bytes of serial the TCU has sent
    chip_rx, \* the chip's receiver: the client addressed, and in_escape
    \* history
    events,
    sent,    \* what other processors printed
    foreign, \* an unknown client has sent
    link,    \* what the host has read
    keyed,   \* what was typed into each PTY
    got      \* what each client received

tcu == <<wire, tcu_tag, taken, sent, foreign>>
chip == <<chip_rx, got>>
tlvars == <<rsvars, thvars, tcu, chip, events, link, keyed>>

\* The options of the host are tried with the sink that prints most.
TLInit ==
    /\ RSInit /\ THInit
    /\ sink = "passthru" \/ (~patch /\ ~log_timestamp)
    /\ wire = <<>> /\ tcu_tag = -1 /\ taken = 0
    /\ chip_rx = [client |-> -1, escape |-> FALSE]
    /\ events = 0
    /\ sent = [i \in Chips \ {0} |-> <<>>]
    /\ foreign = FALSE
    /\ link = <<>>
    /\ keyed = [i \in AllPtys |-> <<>>]
    /\ got = [i \in Chips |-> <<>>]

Event == events < MaxEvents /\ events' = events + 1

\* The two directions share no state, so that a behaviour that uses both shows
\* nothing new: each behaviour uses one.  Nor do sinks and host: a byte that is on
\* the device is read by the host before the next one is put anywhere.
OnlyUplink   == tty_out = <<>> /\ \A i \in AllPtys : keyed[i] = <<>>
OnlyDownlink ==
    /\ link \o wire = <<>> /\ serial = <<>> /\ batch.tail = 0
    /\ ~patch /\ ~log_timestamp /\ sink = "null"

LinkQuiet == wire = <<>> /\ taken = Len(serial)

-----------------------------------------------------------------------------
\* A client of the sink prints.
ClientPrints ==
    /\ Event /\ OnlyUplink /\ LinkQuiet
    /\ \/ \E i \in CharIfs, c \in PrintBytes : PutChar(i, c)
       \/ \E b \in Batches : CallBatch(b)
    /\ UNCHANGED <<thvars, tcu, chip, link, keyed>>

SinkPrints ==
    /\ LinkQuiet
    /\ SinkStep
    /\ UNCHANGED <<thvars, tcu, chip, events, link, keyed>>

\* The TCU sends a byte of a client, after its tag when it was not the last one.
TcuSends(i, b) ==
    /\ wire = <<>>
    /\ wire' = (IF tcu_tag = i THEN <<>> ELSE <<OUTER_ESC, ChipTags[i + 1]>>) \o
               (IF b = OUTER_ESC THEN <<b, b>> ELSE <<b>>)
    /\ tcu_tag' = i

SerialByte ==
    /\ taken < Len(serial)
    /\ TcuSends(0, serial[taken + 1].byte)
    /\ taken' = taken + 1
    /\ UNCHANGED <<rsvars, thvars, chip, events, sent, foreign, link, keyed>>

OtherPrints ==
    /\ Event /\ OnlyUplink /\ LinkQuiet
    /\ \E i \in Chips \ {0}, b \in OtherBytes :
          TcuSends(i, b) /\ sent' = [sent EXCEPT ![i] = Append(@, b)]
    /\ UNCHANGED <<rsvars, thvars, chip, taken, foreign, link, keyed>>

\* The chip restarts, or an unknown client sends.
TcuDisturbs ==
    /\ Event /\ OnlyUplink /\ LinkQuiet
    /\ \/ wire' = <<OUTER_ESC, OUTER_RESET>> /\ UNCHANGED foreign
       \/ wire' = <<OUTER_ESC, UnknownTag, LF>> /\ foreign' = TRUE
    /\ tcu_tag' = -1
    /\ UNCHANGED <<rsvars, thvars, chip, taken, sent, link, keyed>>

HostReads ==
    /\ wire # <<>>
    /\ TcuFeed(Head(wire))
    /\ wire' = Tail(wire)
    /\ link' = Append(link, Head(wire))
    /\ UNCHANGED <<rsvars, tcu_tag, taken, sent, foreign, chip, events, keyed>>

UserTypes ==
    /\ Event /\ OnlyDownlink
    /\ \E i \in AllPtys, b \in TypeBytes :
          /\ pty_in' = [pty_in EXCEPT ![i] = Append(@, b)]
          /\ keyed' = [keyed EXCEPT ![i] = Append(@, b)]
    /\ UNCHANGED <<rsvars, options, uplink, tty_out, cut, tcu, chip, link>>

HostForwards ==
    /\ \E i \in AllPtys : ForwardInput(i)
    /\ UNCHANGED <<rsvars, tcu, chip, events, link, keyed>>

\* The chip's receiver reads a byte of the link.
ChipReads ==
    /\ tty_out # <<>>
    /\ LET ch == Head(tty_out)
           to == chip_rx.client
           data == IF chip_rx.escape THEN ch = OUTER_ESC ELSE ch # OUTER_ESC
           tag == {i \in Chips : ChipTags[i + 1] = ch}
       IN  /\ got' = IF data /\ to >= 0 THEN [got EXCEPT ![to] = Append(@, ch)] ELSE got
           /\ chip_rx' = [ client |-> IF chip_rx.escape /\ ~data
                                      THEN IF tag = {} THEN -1 ELSE CHOOSE i \in tag : TRUE
                                      ELSE to,
                           escape |-> ~chip_rx.escape /\ ~data ]
    /\ tty_out' = Tail(tty_out)
    /\ UNCHANGED <<rsvars, options, uplink, pty_in, cut, tcu, events, link, keyed>>

TLNext ==
    \/ ClientPrints \/ SinkPrints \/ SerialByte \/ OtherPrints \/ TcuDisturbs
    \/ HostReads \/ UserTypes \/ HostForwards \/ ChipReads

TLSpec == TLInit /\ [][TLNext]_tlvars

-----------------------------------------------------------------------------
(* Properties.                                                             *)

TLTypeOK == RSTypeOK /\ THTypeOK

\* What interface i has put on the device
PutBy(i) ==
    FlattenSeq([k \in DOMAIN serial |->
                    IF serial[k].from = i THEN <<serial[k].byte>> ELSE <<>>])

\* What each interface of the sink was given is on the device in its order and
\* complete when the call is over, although three threads share the device.  The
\* client then finds its buffer empty and can fill it, whatever the sink and
\* whatever indices it had left there.
SinksKeepOrder ==
    /\ \A i \in SinkIfs :
          /\ IsPrefix(PutBy(i), handed[i])
          /\ (IF i = "batch" THEN ~in_call ELSE char_out[i] = <<>>) => PutBy(i) = handed[i]
    /\ ~in_call => batch.head = batch.tail

Printed(i) == IF i = 0 THEN [k \in 1..taken |-> serial[k].byte] ELSE sent[i]

\* Every line end of s is a Return and a NewLine.
WellEnded(s) ==
    \A k \in DOMAIN s :
        /\ s[k] = LF => k > 1 /\ s[k - 1] = CR
        /\ s[k] = CR => k < Len(s) /\ s[k + 1] = LF

Text(s) == Without(s, Ends)

\* t is what the host makes of s: -i adds line ends, and only where one is missing.
Renders(s, t) ==
    IF patch THEN Text(t) = Text(s) /\ (WellEnded(s) => t = s) ELSE t = s

\* Every client's PTY has what the client printed, with clients interleaved,
\* escaped bytes and restarts of the chip in between; only a client that is not in
\* the table spoils another's.  The raw PTY always has all that was read from the
\* link, tags and escapes included.
ClientsAreApart ==
    /\ Renders(link, Plain(pty[RawPty]))
    /\ (wire = <<>> /\ ~foreign) =>
           \A i \in Chips : Renders(Printed(i), Plain(pty[i]))

\* A client receives only what was typed into its PTY, in order, unless a write to
\* the link was short or someone used the raw PTY.
OnlyAddressedClient ==
    (~cut /\ keyed[RawPty] = <<>>) => \A i \in Chips : IsSubSeqOf(got[i], keyed[i])
=============================================================================
