----------------------------- MODULE GuestSink -----------------------------
(***************************************************************************)
(* The CAmkES GuestSink component (sel4/GuestSink): it collects what a     *)
(* guest prints, byte by byte, in the buffer it shares with the Mux, and   *)
(* calls mux_batch when a line ends or the buffer has reached a threshold. *)
(***************************************************************************)
EXTENDS ConsoleMux

CONSTANTS
    StreamOf,       \* get_instance_console_stream_id of each client
    BatchSize,      \* sizeof(batch->buf), 4084
    FlushThreshold, \* GUEST_CONSOLE_SINK_FLUSH_THRESHOLD, 1024
    FlushBytes      \* newline, carriage return and colon

\* A byte always fits: the buffer is flushed long before it is full.
ASSUME GuestSinkAssumption ==
    /\ StreamOf \in [MuxClients -> Byte]
    /\ BatchSize \in Nat /\ FlushThreshold \in 1..BatchSize
    /\ FlushBytes \subseteq Byte

VARIABLE
    flushing    \* clients whose putchar is inside guest_console_sink_flush

gsvars == <<cmvars, flushing>>

GSInit == CMInit /\ flushing = {}

\* A buffer that is not set up for this stream is reset first.
Staged(c) == IF batch[c].stream_id = StreamOf[c] THEN batch[c].staged ELSE <<>>

\* The byte just staged, as the n-th one, is the last of its batch.
EndsBatch(byte, n) == byte \in FlushBytes \/ n >= FlushThreshold

\* guest_putchar_putchar
Putchar(c, byte) ==
    /\ c \notin flushing
    /\ LET staged == Append(Staged(c), byte)
       IN  /\ batch' = [batch EXCEPT ![c] = [stream_id |-> StreamOf[c], staged |-> staged]]
           /\ \/ /\ EndsBatch(byte, Len(staged))
                 /\ flushing' = flushing \cup {c}
                 /\ calls' = calls \cup {c}
              \/ /\ ~EndsBatch(byte, Len(staged))
                 /\ UNCHANGED <<flushing, calls>>
    /\ UNCHANGED <<serving, frames, registry_emitted, downlinkThread, receivers,
                   uart_tx, uart_rx>>

\* mux_batch has returned: reset the buffer and let the guest go on.
FlushDone(c) ==
    /\ c \in flushing \ calls
    /\ batch' = [batch EXCEPT ![c] = [stream_id |-> StreamOf[c], staged |-> <<>>]]
    /\ flushing' = flushing \ {c}
    /\ UNCHANGED <<calls, serving, frames, registry_emitted, downlinkThread, receivers,
                   uart_tx, uart_rx>>
=============================================================================
