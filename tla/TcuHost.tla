------------------------------ MODULE TcuHost ------------------------------
(***************************************************************************)
(* The host demuxer (host/tcu_com.c) without -A: the link is an NVIDIA TCU *)
(* link, whose clients are the processors of the chip.  0xff and a tag     *)
(* switch to another client.  Every client has a PTY with its log; one     *)
(* more PTY mirrors the link.                                              *)
(*                                                                         *)
(* A read of a PTY (1024 bytes) is shorter than a chunk of the writer      *)
(* (4096), so that what was read goes out in one write under the lock.     *)
(* Results of writing to logs and PTYs are not looked at in this mode; the *)
(* model has no failures of theirs.                                        *)
(***************************************************************************)
EXTENDS VCMux

CONSTANTS
    ChipTags,       \* the values of chip_tags, in their order
    EnableRawWrite, \* -w
    ReadSize        \* temporary_buffer_size

ASSUME TcuAssumption ==
    /\ ChipTags \in Seq(Byte \ {OUTER_ESC, OUTER_RESET}) /\ ChipTags # <<>>
    /\ IsInjective(ChipTags)
    /\ EnableRawWrite \in BOOLEAN /\ ReadSize \in Nat \ {0}

NUL   == 0
LF    == 1
CR    == 2
STAMP == -1     \* a timestamp in a log

Chips   == 0..(Len(ChipTags) - 1)
RawPty  == Len(ChipTags)
AllPtys == 0..RawPty
DefaultTagPastEnd == RawPty
\* default_tag_idx, the last tag
DefaultTag == RawPty - 1

VARIABLES
    patch,          \* -i
    log_timestamp,  \* -t
    pty,            \* of each PTY: what was written to it and its log, last_ch,
                    \* seen_n and seen_r
    tcu_in_escape,  \* in_escape
    cur_rx_guest,
    pty_in,         \* bytes typed into each PTY and not yet read
    tty_out,        \* bytes written to the link
    cut             \* history: a write was short

options == <<patch, log_timestamp>>
uplink  == <<pty, tcu_in_escape, cur_rx_guest>>
thvars  == <<options, uplink, pty_in, tty_out, cut>>

NewPty == [out |-> <<>>, last_ch |-> NUL, seen_n |-> FALSE, seen_r |-> FALSE]

THTypeOK ==
    /\ patch \in BOOLEAN /\ log_timestamp \in BOOLEAN
    /\ pty \in [AllPtys -> [out: Seq(Byte \cup {STAMP}), last_ch: Byte,
                            seen_n: BOOLEAN, seen_r: BOOLEAN]]
    /\ tcu_in_escape \in BOOLEAN
    /\ cur_rx_guest \in Chips
    /\ pty_in \in [AllPtys -> Seq(Byte)]
    /\ tty_out \in Seq(Byte)
    /\ cut \in BOOLEAN

\* The greeting of open_tty_device is on the link.
THInit ==
    /\ patch \in BOOLEAN /\ log_timestamp \in BOOLEAN
    /\ pty = [i \in AllPtys |-> NewPty]
    /\ tcu_in_escape = FALSE
    /\ cur_rx_guest = 0
    /\ pty_in = [i \in AllPtys |-> <<>>]
    /\ tty_out = <<NUL, OUTER_ESC, OUTER_RESET>>
    /\ cut = FALSE

-----------------------------------------------------------------------------
(* Uplink.                                                                 *)

StampsAfterReturn(t) == log_timestamp /\ t.last_ch \in {CR, NUL}
\* A timestamp is due before the next byte.
StampDue(t) == log_timestamp /\ t.last_ch \in {LF, NUL}

\* flush_stream
Flush(t, ch) ==
    [t EXCEPT !.out     = @ \o (IF StampDue(t) THEN <<STAMP, ch>> ELSE <<ch>>),
              !.last_ch = IF log_timestamp THEN ch ELSE @]

Clear(t) == [t EXCEPT !.seen_n = FALSE, !.seen_r = FALSE]

CompleteReturns(t) == IF t.seen_r THEN Clear(Flush(t, LF)) ELSE t
\* An ordinary byte follows: the missing half of a line end is written first.
Complete(t) ==
    CASE t.seen_r -> Clear(Flush(t, LF))
      [] ~t.seen_r /\ t.seen_n -> Clear(Flush(t, CR))
      [] OTHER -> t

Note(t, ch) == [t EXCEPT !.seen_n = @ \/ ch = LF, !.seen_r = @ \/ ch = CR]

\* patch2flush_stream
PatchFlush(t, ch) ==
    LET noted == IF ch \in {LF, CR} THEN Note(t, ch) ELSE Complete(t)
        after == Flush(noted, ch)
    IN  IF ~patch THEN Flush(t, ch)
        ELSE IF after.seen_n /\ after.seen_r THEN Clear(after) ELSE after

\* The link is mirrored before it is looked at.
MirrorTo(ch) == [pty EXCEPT ![RawPty] = PatchFlush(@, ch)]

Deliver(ch) == pty' = [MirrorTo(ch) EXCEPT ![cur_rx_guest] = PatchFlush(@, ch)]

TcuEscapeStart(ch) ==
    /\ ~tcu_in_escape /\ ch = OUTER_ESC
    /\ tcu_in_escape' = TRUE
    /\ pty' = MirrorTo(ch)
    /\ UNCHANGED cur_rx_guest

TcuPayload(ch) ==
    /\ ~tcu_in_escape /\ ch # OUTER_ESC
    /\ Deliver(ch)
    /\ UNCHANGED <<tcu_in_escape, cur_rx_guest>>

\* 0xff 0xff: a literal 0xff
TcuEscape(ch) ==
    /\ tcu_in_escape /\ ch = OUTER_ESC
    /\ Deliver(ch)
    /\ tcu_in_escape' = FALSE
    /\ UNCHANGED cur_rx_guest

TcuReset(ch) ==
    /\ tcu_in_escape /\ ch = OUTER_RESET
    /\ cur_rx_guest' = DefaultTag
    /\ tcu_in_escape' = FALSE
    /\ pty' = MirrorTo(ch)

TcuTagAsPayload(ch) ==
    /\ tcu_in_escape /\ ch \notin {OUTER_ESC, OUTER_RESET}
    /\ cur_rx_guest' = IF \E i \in Chips : ChipTags[i + 1] = ch
                       THEN CHOOSE i \in Chips : ChipTags[i + 1] = ch
                       ELSE cur_rx_guest
    /\ UNCHANGED tcu_in_escape
    /\ pty' = MirrorTo(ch)
\* 0xff and a tag; one that is not in the table is ignored.
TcuTag(ch) ==
    /\ tcu_in_escape /\ ch \notin {OUTER_ESC, OUTER_RESET}
    /\ cur_rx_guest' = IF \E i \in Chips : ChipTags[i + 1] = ch
                       THEN CHOOSE i \in Chips : ChipTags[i + 1] = ch
                       ELSE cur_rx_guest
    /\ tcu_in_escape' = FALSE
    /\ pty' = MirrorTo(ch)

\* tty_input_handler: one byte of the link.
TcuFeed(ch) ==
    /\ \/ TcuEscapeStart(ch) \/ TcuPayload(ch) \/ TcuEscape(ch)
       \/ TcuReset(ch) \/ TcuTag(ch)
    /\ UNCHANGED <<options, pty_in, tty_out, cut>>

-----------------------------------------------------------------------------
(* Downlink.                                                               *)

EncodeUnescaped(i, data) ==
    IF i = RawPty THEN data ELSE <<OUTER_ESC, ChipTags[i + 1]>> \o data
\* The tag and the data, 0xff doubled; the raw PTY writes to the link as it is.
Encode(i, data) ==
    IF i = RawPty THEN data
    ELSE <<OUTER_ESC, ChipTags[i + 1]>> \o
         FlattenSeq([k \in DOMAIN data |->
                        IF data[k] = OUTER_ESC THEN <<OUTER_ESC, OUTER_ESC>> ELSE <<data[k]>>])

\* pty_input_handler and write_data_to_uart.  The write may time out, or be
\* short, which is not noticed.
ForwardInput(i) ==
    /\ pty_in[i] # <<>>
    /\ \E n \in 1..ReadSize :
          /\ n <= Len(pty_in[i])
          /\ pty_in' = [pty_in EXCEPT ![i] = SubSeq(@, n + 1, Len(@))]
          /\ LET bytes == Encode(i, SubSeq(pty_in[i], 1, n))
             IN  IF i = RawPty /\ ~EnableRawWrite THEN UNCHANGED <<tty_out, cut>>
                 ELSE \/ tty_out' = tty_out \o bytes /\ UNCHANGED cut
                      \/ UNCHANGED <<tty_out, cut>>
                      \/ \E k \in 1..(Len(bytes) - 1) :
                            /\ tty_out' = tty_out \o SubSeq(bytes, 1, k)
                            /\ cut' = TRUE
    /\ UNCHANGED <<options, uplink>>

-----------------------------------------------------------------------------
(* Properties.                                                             *)

Ends == {LF, CR}

\* s without the elements of S
Without(s, S) == FlattenSeq([k \in DOMAIN s |-> IF s[k] \in S THEN <<>> ELSE <<s[k]>>])

Plain(t) == Without(t.out, {STAMP})

\* With -i every line end that is followed by text ends in both its halves, also
\* when the bytes of several clients are interleaved on the link in between.
LinesEndInBoth ==
    patch => \A i \in AllPtys :
        LET s == Plain(pty[i])
        IN  \A k \in 2..Len(s) :
               (s[k] \notin Ends /\ s[k - 1] \in Ends) => k > 2 /\ {s[k - 2], s[k - 1]} = Ends

\* s with a timestamp at the beginning of each line; a NUL byte ends one, too.
Stamped(s) ==
    FlattenSeq([k \in DOMAIN s |->
        IF k = 1 \/ s[k - 1] \in {LF, NUL} THEN <<STAMP, s[k]>> ELSE <<s[k]>>])

\* With -t a log has a timestamp where a line begins and nowhere else.
StampsBeginLines ==
    \A i \in AllPtys :
        pty[i].out = IF log_timestamp THEN Stamped(Plain(pty[i])) ELSE Plain(pty[i])
=============================================================================
