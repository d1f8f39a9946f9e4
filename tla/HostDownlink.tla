---------------------------- MODULE HostDownlink ----------------------------
(***************************************************************************)
(* The downlink half of the host demuxer (host/tcu_com.c): one thread per  *)
(* PTY with input (pty_input_handler) reads what was typed and writes it   *)
(* to the physical link in frames of bounded size, under write_lock.       *)
(* The threads are those that HostDemux starts.                            *)
(***************************************************************************)
EXTENDS HostDemux

CONSTANTS
    ReadSize,       \* temporary_buffer_size
    FragmentSize,   \* VIRTIOSO_DOWNLINK_FRAGMENT_PAYLOAD_SIZE (512)
    EnableRawWrite, \* -w
    TtyFaults       \* how writing to the link may fail: "timeout" poll or write,
                    \* "drain" tcdrain after the write, "partial" a short write

ASSUME DownlinkAssumption ==
    /\ ReadSize \in Nat \ {0} /\ FragmentSize \in Nat \ {0}
    /\ EnableRawWrite \in BOOLEAN
    /\ TtyFaults \subseteq {"timeout", "drain", "partial"}

VARIABLES
    typed,      \* bytes in each PTY that its thread has not read
    buf,        \* bytes each thread has read and not yet written
    write_lock, \* tty_data.write_lock: the thread that holds it, in a set
    tty,        \* bytes written to the link
    greeting,   \* bytes open_tty_device still has to put on the link
    cut         \* history: a frame has been cut by a short write

hdvars == <<typed, buf, write_lock, tty, greeting, cut>>

HDInit ==
    /\ typed = [i \in PtyIdx |-> <<>>]
    /\ buf = [i \in PtyIdx |-> <<>>]
    /\ write_lock = {}
    /\ tty = <<>>
    /\ greeting = <<>>
    /\ cut = FALSE

\* In nvidia-tcu mode the bytes are addressed to the chip tag, 0xff doubled.
ToOuter(bytes) ==
    IF OuterMode = "raw" THEN bytes
    ELSE <<OUTER_ESC, OuterTag>> \o
         FlattenSeq([k \in DOMAIN bytes |->
                        IF bytes[k] = OUTER_ESC THEN <<OUTER_ESC, OUTER_ESC>>
                                                ELSE <<bytes[k]>>])

\* The PTYs of the physical UART itself
Physical == {RAW_CCPLEX, PHYSICAL_UART_DEFAULT}

\* Someone types into a PTY.
Type(i, b) ==
    /\ i \in opened
    /\ typed' = [typed EXCEPT ![i] = Append(@, b)]
    /\ UNCHANGED <<vars, buf, write_lock, tty, greeting, cut>>

\* read, and what needs no lock: a PTY that was rolled back and, without -w, the
\* PTYs of the physical UART discard what was typed.
ReadPty(i) ==
    /\ i \in threads
    /\ typed[i] # <<>> /\ buf[i] = <<>>
    /\ \E n \in 1..ReadSize :
          /\ n <= Len(typed[i])
          /\ typed' = [typed EXCEPT ![i] = SubSeq(@, n + 1, Len(@))]
          /\ buf' = IF i \notin Registered \/ (i \in Physical /\ ~EnableRawWrite)
                    THEN buf
                    ELSE [buf EXCEPT ![i] = SubSeq(typed[i], 1, n)]
    /\ UNCHANGED <<vars, write_lock, tty, greeting, cut>>

\* pthread_mutex_lock
LockTty(i) ==
    /\ buf[i] # <<>>
    /\ write_lock = {}
    /\ write_lock' = {i}
    /\ UNCHANGED <<vars, typed, buf, tty, greeting, cut>>

\* The bytes one putbuf writes: a frame with a part of the buffer, or, for the
\* physical UART, all of it as it is.
FragmentLen(i) ==
    IF Len(buf[i]) > FragmentSize /\ i \notin Physical THEN FragmentSize ELSE Len(buf[i])

Fragment(i) ==
    LET chunk == SubSeq(buf[i], 1, FragmentLen(i))
    IN  ToOuter(IF i \in Physical THEN chunk ELSE EncodeData(tags[i].value, chunk))

\* The loop goes on with what is left of the buffer.
Processed(i) == buf' = [buf EXCEPT ![i] = SubSeq(@, FragmentLen(i) + 1, Len(@))]

\* An error: the rest of the buffer is dropped and the lock released.
GiveUp(i) ==
    /\ buf' = [buf EXCEPT ![i] = <<>>]
    /\ write_lock' = {}

\* putbuf_or_exit.  A short write is reported as its positive count, which the
\* loop takes for success.
WriteFragment(i) ==
    /\ i \in write_lock
    /\ buf[i] # <<>>
    /\ \/ /\ tty' = tty \o Fragment(i)
          /\ Processed(i)
          /\ UNCHANGED <<write_lock, cut>>
       \/ /\ "partial" \in TtyFaults
          /\ \E n \in 0..(Len(Fragment(i)) - 1) : tty' = tty \o SubSeq(Fragment(i), 1, n)
          /\ cut' = TRUE
          /\ Processed(i)
          /\ UNCHANGED write_lock
       \/ /\ "timeout" \in TtyFaults
          /\ UNCHANGED <<tty, cut>>
          /\ GiveUp(i)
       \/ /\ "drain" \in TtyFaults
          /\ tty' = tty \o Fragment(i)
          /\ GiveUp(i)
          /\ UNCHANGED cut
    /\ UNCHANGED <<vars, typed, greeting>>

UnlockTty(i) ==
    /\ i \in write_lock
    /\ buf[i] = <<>>
    /\ write_lock' = {}
    /\ UNCHANGED <<vars, typed, buf, tty, greeting, cut>>

\* A hangup: the tty thread reopens the device, without the lock, and tells the
\* target that the outer layer starts anew.
ReopenTty ==
    /\ alive
    /\ greeting = <<>>
    /\ greeting' = <<0, OUTER_ESC, OUTER_RESET>>
    /\ UNCHANGED <<vars, typed, buf, write_lock, tty, cut>>

\* putch_or_exit in open_tty_device, which ignores its result.
PutGreeting ==
    /\ greeting # <<>>
    /\ \/ tty' = Append(tty, Head(greeting))
       \/ "timeout" \in TtyFaults /\ UNCHANGED tty
    /\ greeting' = Tail(greeting)
    /\ UNCHANGED <<vars, typed, buf, write_lock, cut>>

PtyThread(i) == ReadPty(i) \/ LockTty(i) \/ WriteFragment(i) \/ UnlockTty(i)
=============================================================================
